---- MODULE Spec2Model ----
(***************************************************************************)
(* Model of the Claude -> Antigravity request translation pipeline and of  *)
(* its JSON-Schema normalizer:                                             *)
(*   internal/util/gemini_schema_optimized.go                              *)
(*   internal/translator/antigravity/claude/antigravity_claude_request_v2.go *)
(*   internal/translator/antigravity/claude/antigravity_claude_request_optimized.go *)
(*                                                                         *)
(* JSON values are tagged records:                                         *)
(*   k = "s" string, "i" number, "b" boolean, "n" null  (s: printed form)  *)
(*   k = "o" object (o: function from key strings to JSON values)          *)
(*   k = "a" array  (a: sequence of JSON values)                           *)
(* A text is [fmt, v]: fmt = "compact" | "pretty" (two spellings of the    *)
(* JSON value v) or "invalid" (a text that does not parse).  Key order of  *)
(* a marshalled object is not modelled.                                    *)
(***************************************************************************)
EXTENDS Integers, Sequences, FiniteSets, TLC

(***************************************************************************)
(* JSON values                                                             *)
(***************************************************************************)
Str(s) == [k |-> "s", s |-> s]
Num(s) == [k |-> "i", s |-> s]
Bool(s) == [k |-> "b", s |-> s]
Null == [k |-> "n", s |-> "<nil>"]
Obj(f) == [k |-> "o", o |-> f]
Arr(q) == [k |-> "a", a |-> q]
EmptyMap == [x \in {} |-> Null]

IsStr(x) == x.k = "s"
IsObj(x) == x.k = "o"
IsArr(x) == x.k = "a"
IsBool(x) == x.k = "b"

\* node[key] exists
Has(m, key) == key \in DOMAIN m
\* node[key].(string)
HasStr(m, key) == Has(m, key) /\ IsStr(m[key])
\* node[key].(map[string]interface{})
HasObj(m, key) == Has(m, key) /\ IsObj(m[key])
\* node[key].([]interface{})
HasArr(m, key) == Has(m, key) /\ IsArr(m[key])
\* node[key] = val
Put(m, key, val) == [x \in (DOMAIN m) \cup {key} |-> IF x = key THEN val ELSE m[x]]
\* delete(node, key)
Del(m, key) == [x \in (DOMAIN m) \ {key} |-> m[x]]

(***************************************************************************)
(* Go string helpers (package strings), on TLC strings                     *)
(***************************************************************************)
\* strings.Contains(s, sub)
Contains(s, sub) ==
    \E i \in 1..(Len(s) - Len(sub) + 1) : SubSeq(s, i, i + Len(sub) - 1) = sub

\* strings.LastIndex(s, c) for a one-character c, 1-based; 0 when absent
LastIndex(s, c) ==
    LET hits == {i \in 1..Len(s) : SubSeq(s, i, i) = c}
    IN  IF hits = {} THEN 0 ELSE CHOOSE i \in hits : \A j \in hits : j <= i

\* strings.Index(s, c) for a one-character c, 1-based; 0 when absent
FirstIndex(s, c) ==
    LET hits == {i \in 1..Len(s) : SubSeq(s, i, i) = c}
    IN  IF hits = {} THEN 0 ELSE CHOOSE i \in hits : \A j \in hits : i <= j

RECURSIVE Split(_, _)
\* strings.Split(s, c) for a one-character separator c
Split(s, c) ==
    LET i == FirstIndex(s, c)
    IN  IF i = 0 THEN <<s>>
        ELSE <<SubSeq(s, 1, i - 1)>> \o Split(SubSeq(s, i + 1, Len(s)), c)

RECURSIVE Join(_, _)
\* strings.Join(q, sep)
Join(q, sep) ==
    IF Len(q) = 0 THEN ""
    ELSE IF Len(q) = 1 THEN q[1]
    ELSE q[1] \o sep \o Join(Tail(q), sep)

\* func stringSliceContains(slice []string, item string) bool
stringSliceContains(slice, item) == \E i \in 1..Len(slice) : slice[i] = item

\* The strings of a []interface{} that are strings, in order (r.(string) filter)
RECURSIVE StringsOf(_)
StringsOf(q) ==
    IF Len(q) = 0 THEN <<>>
    ELSE (IF IsStr(q[1]) THEN <<q[1].s>> ELSE <<>>) \o StringsOf(Tail(q))

\* Appends the members of q not yet in acc, in order (dedup append)
RECURSIVE AppendNew(_, _)
AppendNew(acc, q) ==
    IF Len(q) = 0 THEN acc
    ELSE AppendNew(IF stringSliceContains(acc, q[1]) THEN acc ELSE Append(acc, q[1]),
                   Tail(q))

\* []string -> []interface{}
StrArr(q) == Arr([i \in 1..Len(q) |-> Str(q[i])])

(***************************************************************************)
(* fmt.Sprint / %v of a decoded JSON value.  Maps print with sorted keys;  *)
(* KeyOrder lists the key names of the model in sorted order.              *)
(***************************************************************************)
KeyOrder == <<"$defs", "$id", "$ref", "$schema", "_", "a", "additionalProperties",
              "allOf", "anyOf", "b", "const", "default", "definitions",
              "description", "enum", "format", "items", "minLength", "oneOf",
              "pattern", "properties", "reason", "required", "type", "user">>

\* The keys of m in sorted order
SortedKeys(m) ==
    LET idx == {i \in 1..Len(KeyOrder) : KeyOrder[i] \in DOMAIN m}
        RECURSIVE Up(_)
        Up(i) == IF i > Len(KeyOrder) THEN <<>>
                 ELSE (IF i \in idx THEN <<KeyOrder[i]>> ELSE <<>>) \o Up(i + 1)
    IN  Up(1)

RECURSIVE Sprint(_)
Sprint(x) ==
    IF IsObj(x) THEN
        LET ks == SortedKeys(x.o)
        IN  "map[" \o Join([i \in 1..Len(ks) |-> ks[i] \o ":" \o Sprint(x.o[ks[i]])], " ")
                   \o "]"
    ELSE IF IsArr(x) THEN
        "[" \o Join([i \in 1..Len(x.a) |-> Sprint(x.a[i])], " ") \o "]"
    ELSE x.s

(***************************************************************************)
(* Schema normalizer: helpers                                              *)
(***************************************************************************)
\* func appendHintToNode(node map[string]interface{}, hint string)
appendHintToNode(node, hint) ==
    LET existing == IF HasStr(node, "description") THEN node["description"].s ELSE ""
    IN  IF existing # ""
        THEN Put(node, "description", Str(existing \o " (" \o hint \o ")"))
        ELSE Put(node, "description", Str(hint))

\* func buildPath(parent, key string) string
buildPath(parent, key) == IF parent = "" THEN key ELSE parent \o "." \o key

\* cleanContext: nullableFields maps an object path to the field names
\* recorded for it; fault records a failed type assertion (a Go panic).
NewContext == [nullableFields |-> [x \in {} |-> <<>>], fault |-> FALSE]

(***************************************************************************)
(* Schema normalizer: the rules of processObjectNode, in source order      *)
(***************************************************************************)
\* 1. $ref -> description hint; the node is replaced wholesale
refReplace(node) ==
    LET refVal == node["$ref"].s
        idx == LastIndex(refVal, "/")
        defName == IF idx > 0 THEN SubSeq(refVal, idx + 1, Len(refVal)) ELSE refVal
        hint == "See: " \o defName
        existing == IF HasStr(node, "description") THEN node["description"].s ELSE ""
    IN  [type |-> Str("object"),
         description |-> Str(IF existing # "" THEN existing \o " (" \o hint \o ")"
                             ELSE hint)]

\* 2. const -> enum
constToEnum(node) ==
    IF Has(node, "const")
    THEN Del(IF Has(node, "enum") THEN node
             ELSE Put(node, "enum", Arr(<<node["const"]>>)),
             "const")
    ELSE node

\* 3. enum values to strings, and the "Allowed:" hint
enumToStrings(node) ==
    IF HasArr(node, "enum")
    THEN LET enumVal == node["enum"].a
             vals == [i \in 1..Len(enumVal) |-> Sprint(enumVal[i])]
             n1 == Put(node, "enum", StrArr(vals))
         IN  IF Len(vals) > 1 /\ Len(vals) <= 10
             THEN appendHintToNode(n1, "Allowed: " \o Join(vals, ", "))
             ELSE n1
    ELSE node

\* 4. additionalProperties
dropAdditionalProperties(node) ==
    IF Has(node, "additionalProperties")
    THEN LET addProps == node["additionalProperties"]
             n1 == IF IsBool(addProps) /\ addProps.s = "false"
                   THEN appendHintToNode(node, "No extra properties allowed")
                   ELSE node
         IN  Del(n1, "additionalProperties")
    ELSE node

unsupportedKeys == <<"minLength", "maxLength", "exclusiveMinimum", "exclusiveMaximum",
                     "pattern", "minItems", "maxItems", "format", "default", "examples">>

RECURSIVE moveUnsupported(_, _)
\* 5. scalar-valued unsupported constraints become description hints
moveUnsupported(node, i) ==
    IF i > Len(unsupportedKeys) THEN node
    ELSE LET key == unsupportedKeys[i]
         IN  IF Has(node, key) /\ ~IsObj(node[key]) /\ ~IsArr(node[key])
             THEN moveUnsupported(
                      Del(appendHintToNode(node, key \o ": " \o Sprint(node[key])), key),
                      i + 1)
             ELSE moveUnsupported(node, i + 1)

RECURSIVE mergeItems(_, _, _)
\* the loop of mergeAllOfInPlace over the allOf members: acc = [props, req]
mergeItems(allOf, i, acc) ==
    IF i > Len(allOf) THEN acc
    ELSE LET item == allOf[i]
         IN  IF ~IsObj(item) THEN mergeItems(allOf, i + 1, acc)
             ELSE LET itemObj == item.o
                      props == IF HasObj(itemObj, "properties")
                               THEN [x \in DOMAIN acc.props \cup DOMAIN itemObj["properties"].o |->
                                        IF x \in DOMAIN itemObj["properties"].o
                                        THEN itemObj["properties"].o[x]
                                        ELSE acc.props[x]]
                               ELSE acc.props
                      req == IF HasArr(itemObj, "required")
                             THEN AppendNew(acc.req, StringsOf(itemObj["required"].a))
                             ELSE acc.req
                  IN  mergeItems(allOf, i + 1, [props |-> props, req |-> req])

\* func mergeAllOfInPlace(parent map[string]interface{}, allOf []interface{})
\* result: [node, fault]; fault is the failed assertion parent["properties"].(map)
mergeAllOfInPlace(parent, allOf) ==
    LET p1 == IF Has(parent, "properties") THEN parent
              ELSE Put(parent, "properties", Obj(EmptyMap))
    IN  IF ~IsObj(p1["properties"]) THEN [node |-> p1, fault |-> TRUE]
        ELSE LET allRequired == IF HasArr(p1, "required")
                                THEN StringsOf(p1["required"].a) ELSE <<>>
                 acc == mergeItems(allOf, 1,
                                   [props |-> p1["properties"].o, req |-> allRequired])
                 p2 == Put(p1, "properties", Obj(acc.props))
             IN  [node |-> IF Len(acc.req) > 0
                           THEN Put(p2, "required", StrArr(acc.req)) ELSE p2,
                  fault |-> FALSE]

RECURSIVE selectLoop(_, _, _)
\* the loop of selectBestSchema: acc = [bestIdx, bestScore, types], bestIdx 0-based
selectLoop(items, i, acc) ==
    IF i > Len(items) THEN acc
    ELSE IF ~IsObj(items[i]) THEN selectLoop(items, i + 1, acc)
    ELSE LET itemObj == items[i].o
             t0 == IF HasStr(itemObj, "type") THEN itemObj["type"].s ELSE ""
             notNil(key) == Has(itemObj, key) /\ itemObj[key].k # "n"
             isObject == t0 = "object" \/ notNil("properties")
             isArray == t0 = "array" \/ notNil("items")
             score == IF isObject THEN 3
                      ELSE IF isArray THEN 2
                      ELSE IF t0 # "" /\ t0 # "null" THEN 1 ELSE 0
             t == IF t0 # "" THEN t0
                  ELSE IF isObject THEN "object"
                  ELSE IF isArray THEN "array" ELSE "null"
             types == IF t # "" /\ ~stringSliceContains(acc.types, t)
                      THEN Append(acc.types, t) ELSE acc.types
         IN  selectLoop(items, i + 1,
                 IF score > acc.bestScore
                 THEN [bestIdx |-> i - 1, bestScore |-> score, types |-> types]
                 ELSE [acc EXCEPT !.types = types])

\* a faulty selection that always takes the first member
selectFirstMember(items) ==
    [selectLoop(items, 1, [bestIdx |-> 0, bestScore |-> -1, types |-> <<>>])
        EXCEPT !.bestIdx = 0]

\* func selectBestSchema(items []interface{}) (bestIdx int, types []string)
selectBestSchema(items) ==
    selectLoop(items, 1, [bestIdx |-> 0, bestScore |-> -1, types |-> <<>>])

\* the merge loop of flattenUnionInPlace and its "Accepts:" hint
mergeSelected(parent, best, parentDesc, allTypes) ==
    LET others == (DOMAIN best) \ {"description"}
        merged == [x \in (DOMAIN parent) \cup others |->
                      IF x \in others THEN best[x] ELSE parent[x]]
        childDesc == IF HasStr(best, "description") THEN best["description"].s ELSE ""
        withDesc ==
            IF ~HasStr(best, "description") THEN merged
            ELSE IF parentDesc # "" /\ childDesc # "" /\ childDesc # parentDesc
            THEN Put(merged, "description", Str(parentDesc \o " (" \o childDesc \o ")"))
            ELSE IF childDesc # "" THEN Put(merged, "description", Str(childDesc))
            ELSE merged
    IN  IF Len(allTypes) > 1
        THEN appendHintToNode(withDesc, "Accepts: " \o Join(allTypes, " | "))
        ELSE withDesc

\* flattenUnionInPlace once the best member is selected
mergeBest(parent, arr, sel) ==
    LET bestIdx == IF sel.bestIdx < 0 \/ sel.bestIdx >= Len(arr) THEN 0 ELSE sel.bestIdx
    IN  IF ~IsObj(arr[bestIdx + 1]) THEN parent
        ELSE mergeSelected(parent, arr[bestIdx + 1].o,
                           IF HasStr(parent, "description")
                           THEN parent["description"].s ELSE "",
                           sel.types)

\* func flattenUnionInPlace(parent, arr, unionType)
flattenUnionInPlace(parent, arr) ==
    IF Len(arr) = 0 THEN parent ELSE mergeBest(parent, arr, selectBestSchema(arr))

\* 7. anyOf / oneOf flattening of processObjectNode, for one union keyword
flattenKey(node, key) ==
    IF HasArr(node, key) /\ Len(node[key].a) > 0
    THEN Del(flattenUnionInPlace(node, node[key].a), key)
    ELSE node

\* the non-null, non-empty type names of a type array, in order
RECURSIVE nonNullTypesOf(_)
nonNullTypesOf(q) ==
    IF Len(q) = 0 THEN <<>>
    ELSE (IF IsStr(q[1]) /\ q[1].s # "null" /\ q[1].s # "" THEN <<q[1].s>> ELSE <<>>)
         \o nonNullTypesOf(Tail(q))

\* index (1-based) of the first i in 1..Len(parts)-1 with parts[i] = "properties"; 0 if none
firstProperties(parts) ==
    LET hits == {i \in 1..(Len(parts) - 1) : parts[i] = "properties"}
    IN  IF hits = {} THEN 0 ELSE CHOOSE i \in hits : \A j \in hits : i <= j

\* ctx.nullableFields[objectPath] = append(ctx.nullableFields[objectPath], fieldName)
recordNullable(ctx, objectPath, fieldName) ==
    LET nf == ctx.nullableFields
        old == IF objectPath \in DOMAIN nf THEN nf[objectPath] ELSE <<>>
    IN  [ctx EXCEPT !.nullableFields =
            [x \in (DOMAIN nf) \cup {objectPath} |->
                IF x = objectPath THEN Append(old, fieldName) ELSE nf[x]]]

\* func handleTypeArrayInPlace(node, typeArr, path, ctx); result [node, ctx]
handleTypeArrayInPlace(node, typeArr, path, ctx) ==
    LET nonNullTypes == nonNullTypesOf(typeArr)
        hasNull == \E i \in 1..Len(typeArr) : IsStr(typeArr[i]) /\ typeArr[i].s = "null"
        firstType == IF Len(nonNullTypes) > 0 THEN nonNullTypes[1] ELSE "string"
        n1 == Put(node, "type", Str(firstType))
        n2 == IF Len(nonNullTypes) > 1
              THEN appendHintToNode(n1, "Accepts: " \o Join(nonNullTypes, " | "))
              ELSE n1
    IN  IF hasNull /\ Contains(path, ".properties.")
        THEN LET parts == Split(path, ".")
                 i == firstProperties(parts)
             IN  [node |-> appendHintToNode(n2, "(nullable)"),
                  ctx |-> IF i = 0 THEN ctx
                          ELSE recordNullable(ctx, Join(SubSeq(parts, 1, i - 1), "."),
                                              parts[i + 1])]
        ELSE [node |-> n2, ctx |-> ctx]

\* func handleEmptyObjectSchema(node map[string]interface{}, path string)
handleEmptyObjectSchema(node, path) ==
    LET hasProps == HasObj(node, "properties")
        props == IF hasProps THEN node["properties"].o ELSE EmptyMap
        hasReq == HasArr(node, "required")
        needsPlaceholder == ~hasProps \/ DOMAIN props = {}
    IN  IF needsPlaceholder
        THEN Put(Put(node, "properties",
                     Obj(Put(props, "reason",
                             Obj([type |-> Str("string"),
                                  description |->
                                      Str("Brief explanation of why you are calling this tool")])))),
                 "required", StrArr(<<"reason">>))
        ELSE LET hasRequired == hasReq /\ Len(node["required"].a) > 0
             IN  IF DOMAIN props # {} /\ ~hasRequired /\ path # ""
                 THEN Put(Put(node, "properties",
                              Obj(IF Has(props, "_") THEN props
                                  ELSE Put(props, "_", Obj([type |-> Str("boolean")])))),
                          "required", StrArr(<<"_">>))
                 ELSE node

\* the members of reqArr (kept as they are) that are strings naming a key of props
RECURSIVE validRequired(_, _)
validRequired(reqArr, props) ==
    IF Len(reqArr) = 0 THEN <<>>
    ELSE (IF IsStr(reqArr[1]) /\ Has(props, reqArr[1].s) THEN <<reqArr[1]>> ELSE <<>>)
         \o validRequired(Tail(reqArr), props)

\* func cleanupRequiredInPlace(node map[string]interface{})
cleanupRequiredInPlace(node) ==
    IF ~HasArr(node, "required") \/ ~HasObj(node, "properties") THEN node
    ELSE LET reqArr == node["required"].a
             valid == validRequired(reqArr, node["properties"].o)
         IN  IF Len(valid) # Len(reqArr)
             THEN IF Len(valid) = 0 THEN Del(node, "required")
                  ELSE Put(node, "required", Arr(valid))
             ELSE node

removeKeys == {"$schema", "$defs", "definitions", "$ref", "$id", "propertyNames",
               "patternProperties", "enumTitles", "prefill"}

\* 11. remove unsupported keywords
removeUnsupportedKeywords(node) == [x \in (DOMAIN node) \ removeKeys |-> node[x]]

\* 6. allOf merging: [node, fault]
allOfStep(node) ==
    IF HasArr(node, "allOf")
    THEN mergeAllOfInPlace(node, node["allOf"].a)
    ELSE [node |-> node, fault |-> FALSE]

\* 8. type array flattening: [node, ctx]
typeArrayStep(node, path, ctx) ==
    IF HasArr(node, "type") /\ Len(node["type"].a) > 0
    THEN handleTypeArrayInPlace(node, node["type"].a, path, ctx)
    ELSE [node |-> node, ctx |-> ctx]

\* 9. empty schema placeholder
emptyObjectStep(node, path) ==
    IF HasStr(node, "type") /\ node["type"].s = "object"
    THEN handleEmptyObjectSchema(node, path)
    ELSE node

\* rules 9 to 11 on the outcome r of rule 8
finishNode(r, path) ==
    [node |-> removeUnsupportedKeywords(
                  cleanupRequiredInPlace(emptyObjectStep(r.node, path))),
     ctx |-> r.ctx]

\* rules 7 to 11 on the outcome m of rule 6
afterAllOf(m, path, ctx) ==
    IF m.fault THEN [node |-> m.node, ctx |-> [ctx EXCEPT !.fault = TRUE]]
    ELSE finishNode(
             typeArrayStep(flattenKey(flattenKey(IF HasArr(m.node, "allOf")
                                                 THEN Del(m.node, "allOf") ELSE m.node,
                                                 "anyOf"), "oneOf"),
                           path, ctx),
             path)

\* func processObjectNode(node map[string]interface{}, path string, ctx *cleanContext)
\* result: [node, ctx]
processObjectNode(node, path, ctx) ==
    IF HasStr(node, "$ref") THEN [node |-> refReplace(node), ctx |-> ctx]
    ELSE afterAllOf(
             allOfStep(moveUnsupported(
                 dropAdditionalProperties(enumToStrings(constToEnum(node))), 1)),
             path, ctx)

RECURSIVE cleanSchemaRecursive(_, _, _)
RECURSIVE cleanChildren(_, _, _, _)
RECURSIVE cleanElements(_, _, _, _)
RECURSIVE descend(_, _)
RECURSIVE cleanChild(_, _, _, _, _)
RECURSIVE childDone(_, _, _, _, _)
RECURSIVE elementDone(_, _, _, _)
\* func cleanSchemaRecursive(node interface{}, path string, ctx *cleanContext)
\* result: [node, ctx]
cleanSchemaRecursive(node, path, ctx) ==
    IF ctx.fault THEN [node |-> node, ctx |-> ctx]
    ELSE IF IsObj(node) THEN descend(processObjectNode(node.o, path, ctx), path)
    ELSE IF IsArr(node) THEN cleanElements(node.a, 1, path, ctx)
    ELSE [node |-> node, ctx |-> ctx]

\* the children of an object node after processObjectNode returned r
descend(r, path) ==
    IF r.ctx.fault THEN [node |-> Obj(r.node), ctx |-> r.ctx]
    ELSE cleanChildren(r.node, DOMAIN r.node, path, r.ctx)

\* for key, child := range v { cleanSchemaRecursive(child, buildPath(path, key), ctx) }
cleanChildren(m, keys, path, ctx) ==
    IF keys = {} THEN [node |-> Obj(m), ctx |-> ctx]
    ELSE cleanChild(m, keys, CHOOSE x \in keys : TRUE, path, ctx)

\* one iteration of that loop, on the child under key
cleanChild(m, keys, key, path, ctx) ==
    childDone(m, keys, key, path, cleanSchemaRecursive(m[key], buildPath(path, key), ctx))

childDone(m, keys, key, path, r) ==
    cleanChildren([m EXCEPT ![key] = r.node], keys \ {key}, path, r.ctx)

\* for i, child := range v { cleanSchemaRecursive(child, path + "[i]", ctx) }
cleanElements(q, i, path, ctx) ==
    IF i > Len(q) THEN [node |-> Arr(q), ctx |-> ctx]
    ELSE elementDone(q, i, path,
                     cleanSchemaRecursive(q[i], path \o "[" \o ToString(i - 1) \o "]", ctx))

elementDone(q, i, path, r) == cleanElements([q EXCEPT ![i] = r.node], i + 1, path, r.ctx)

RECURSIVE walk(_, _)
\* the loop of navigateToPath: the object reached from current along parts, or
\* [ok |-> FALSE] (nil)
walk(current, parts) ==
    IF Len(parts) = 0 THEN [ok |-> TRUE, obj |-> current]
    ELSE IF parts[1] = "" THEN walk(current, Tail(parts))
    ELSE IF HasObj(current, parts[1]) THEN walk(current[parts[1]].o, Tail(parts))
    ELSE [ok |-> FALSE, obj |-> current]

\* func navigateToPath(schema map[string]interface{}, path string) map[string]interface{}
navigateToPath(schema, path) ==
    IF path = "" THEN [ok |-> TRUE, obj |-> schema] ELSE walk(schema, Split(path, "."))

\* the members of reqArr that are strings not in fields
RECURSIVE filterRequired(_, _)
filterRequired(reqArr, fields) ==
    IF Len(reqArr) = 0 THEN <<>>
    ELSE (IF IsStr(reqArr[1]) /\ ~stringSliceContains(fields, reqArr[1].s)
          THEN <<reqArr[1]>> ELSE <<>>)
         \o filterRequired(Tail(reqArr), fields)

\* the body of the loop of applyNullableFields on the object it navigated to
stripNullable(obj, fields) ==
    IF HasArr(obj, "required")
    THEN LET filtered == filterRequired(obj["required"].a, fields)
         IN  IF Len(filtered) = 0 THEN Del(obj, "required")
             ELSE Put(obj, "required", Arr(filtered))
    ELSE obj

RECURSIVE updateAt(_, _, _)
\* schema with the object at parts (which navigateToPath reaches) replaced by
\* stripNullable of it: the in-place mutation through the returned map
updateAt(current, parts, fields) ==
    IF Len(parts) = 0 THEN stripNullable(current, fields)
    ELSE IF parts[1] = "" THEN updateAt(current, Tail(parts), fields)
    ELSE [current EXCEPT ![parts[1]] =
              Obj(updateAt(current[parts[1]].o, Tail(parts), fields))]

RECURSIVE applyLoop(_, _, _)
RECURSIVE applyOne(_, _, _, _)
applyLoop(schema, paths, nf) ==
    IF paths = {} THEN schema
    ELSE applyOne(schema, paths, nf, CHOOSE x \in paths : TRUE)

\* one iteration of the loop of applyNullableFields
applyOne(schema, paths, nf, objectPath) ==
    applyLoop(IF navigateToPath(schema, objectPath).ok
              THEN updateAt(schema,
                            IF objectPath = "" THEN <<>> ELSE Split(objectPath, "."),
                            nf[objectPath])
              ELSE schema,
              paths \ {objectPath}, nf)

\* func (ctx *cleanContext) applyNullableFields(schema map[string]interface{})
applyNullableFields(ctx, schema) ==
    applyLoop(schema, DOMAIN ctx.nullableFields, ctx.nullableFields)

\* Post-processing of the traversal's outcome r: handle nullable fields
postProcess(schema, r) ==
    IF r.ctx.fault THEN [fault |-> TRUE, val |-> schema]
    ELSE [fault |-> FALSE,
          val |-> IF IsObj(r.node) THEN Obj(applyNullableFields(r.ctx, r.node.o))
                  ELSE r.node]

\* The tree rewriting of CleanJSONSchemaForAntigravityOptimized between Unmarshal
\* and Marshal: [fault, val]
cleanTree(schema) == postProcess(schema, cleanSchemaRecursive(schema, "", NewContext))

(***************************************************************************)
(* Texts, and the normalizer between parse and serialization               *)
(***************************************************************************)
Text(fmt, val) == [fmt |-> fmt, v |-> val]
\* the return value slot before any call, and the outcome of a call that panicked
NoText == [fmt |-> "none", v |-> Null]
Panicked == [fmt |-> "panic", v |-> Null]
IsText(t) == t.fmt \in {"compact", "pretty", "invalid"}

\* sonic.UnmarshalString(jsonStr, &schema): [err, val]
UnmarshalString(jsonStr) ==
    IF jsonStr.fmt \in {"compact", "pretty"} THEN [err |-> FALSE, val |-> jsonStr.v]
    ELSE [err |-> TRUE, val |-> Null]

\* sonic.MarshalString(schema): the compact spelling
MarshalString(schema) == Text("compact", schema)

\* func computeHash(s string) string: SHA-256, taken to be injective
computeHash(s) == <<"sha256", s>>

\* Marshal back to JSON the outcome c of the tree rewriting
marshalOutcome(c) ==
    IF c.fault THEN [out |-> Panicked, store |-> FALSE]
    ELSE [out |-> MarshalString(c.val), store |-> TRUE]

\* a faulty miss that stores the text it could not parse
storeUnparsed(jsonStr) ==
    IF UnmarshalString(jsonStr).err THEN [out |-> jsonStr, store |-> TRUE]
    ELSE marshalOutcome(cleanTree(UnmarshalString(jsonStr).val))

\* CleanJSONSchemaForAntigravityOptimized on a cache miss:
\* [out, store]: the text returned (Panicked on a fault) and whether it is stored
cleanUncached(jsonStr) ==
    IF UnmarshalString(jsonStr).err THEN [out |-> jsonStr, store |-> FALSE]
    ELSE marshalOutcome(cleanTree(UnmarshalString(jsonStr).val))

(***************************************************************************)
(* SchemaCache                                                             *)
(***************************************************************************)
\* capacity of the global schemaCache instance
DefaultMaxSize == 1000
\* capacity of the cache instance of the cache specification
MaxSize == 3
\* most feed-back passes (normalizing the previous output) in a row
MaxPasses == 2
\* most properties of a generated object schema
MaxProps == 2

VARIABLES
    schemaCache,   \* SchemaCache.cache: hash -> normalized text
    maxSize,       \* SchemaCache.maxSize
    pool,          \* the texts callers pass to the normalizer
    jsonStr,       \* argument of the last normalizer call (NoText: none yet)
    result,        \* its return value (Panicked: it did not return)
    fedBack,       \* the last call's argument was the previous call's result
    passes,        \* feed-back calls in a row
    stats,         \* last return value of GetSchemaCacheStats
    served         \* how the last normalizer call ended: "hit", "miss", "none"

schemaVars == <<schemaCache, maxSize, pool, jsonStr, result, fedBack, passes, stats, served>>

VARIABLES
    variant,       \* entry point of the translation: "V2" or "Optimized"
    modelName,     \* modelName argument
    sessionID,     \* sessionID (Optimized only)
    pc,            \* position of the translation in the request
    items,         \* constituents of the request read so far
    req,           \* the source request, as far as it has been read
    role,          \* role of the message being translated
    enableThoughtTranslate,
    currentMessageThinkingSignature,
    thinkingParts,
    otherParts,
    clientContent, \* clientContent.Parts
    hasSystemInstruction,
    output         \* the AntigravityRequest being built

\* calls of ConvertClaudeRequestToAntigravityV2 running side by side, each
\* with its own local variables
VARIABLE calls

loopVars == <<role, enableThoughtTranslate, currentMessageThinkingSignature,
              thinkingParts, otherParts, clientContent>>
\* calls of CleanJSONSchemaForAntigravityOptimized in flight, by goroutine
VARIABLE normalizing

\* the last call of ApplyUTLSToClient: its arguments and the client returned
VARIABLE applied

transVars == <<variant, modelName, sessionID, pc, items, req, loopVars,
               hasSystemInstruction, output, calls, normalizing, applied>>
vars == <<schemaVars, transVars>>

\* the texts whose digests are ordered by the model: sort.Strings of evictHalf
\* orders them as listed in CacheTexts below
RankedTexts ==
    <<Text("compact", Obj([type |-> Str("string")])),
      Text("pretty", Obj([type |-> Str("string")])),
      Text("compact", Obj([enum |-> Arr(<<Str("x"), Str("y")>>)])),
      Text("compact", Obj([type |-> Str("object")])),
      Text("invalid", Str("{")),
      Text("compact", Obj([type |-> Str("string"), format |-> Str("email")])),
      Text("compact", Obj([allOf |-> Arr(<<Obj([type |-> Str("object")])>>),
                           properties |-> Str("none")]))>>

\* a faulty lookup that answers with any stored entry, whatever the key
GetAnyEntry(cache, key) ==
    IF DOMAIN cache # {}
    THEN [val |-> cache[CHOOSE x \in DOMAIN cache : TRUE], ok |-> TRUE]
    ELSE [val |-> NoText, ok |-> FALSE]

\* func (c *SchemaCache) Get(key string) (string, bool)
CacheGet(cache, key) ==
    IF key \in DOMAIN cache THEN [val |-> cache[key], ok |-> TRUE]
    ELSE [val |-> NoText, ok |-> FALSE]

\* sort.Strings(keys): keys in increasing digest order
sortStrings(keys) ==
    LET RECURSIVE Up(_)
        Up(i) == IF i > Len(RankedTexts) THEN <<>>
                 ELSE (IF computeHash(RankedTexts[i]) \in keys
                       THEN <<computeHash(RankedTexts[i])>> ELSE <<>>) \o Up(i + 1)
    IN  Up(1)

\* a faulty eviction that removes nothing
keepAll(cache) == cache

\* a faulty eviction that removes the largest keys
evictLargest(cache) ==
    LET keys == sortStrings(DOMAIN cache)
        toRemove == Len(keys) \div 2
        removed == {keys[Len(keys) + 1 - i] : i \in 1..toRemove}
    IN  [x \in (DOMAIN cache) \ removed |-> cache[x]]

\* func (c *SchemaCache) evictHalf()
evictHalf(cache) ==
    LET keys == sortStrings(DOMAIN cache)
        toRemove == Len(keys) \div 2
        removed == {keys[i] : i \in 1..toRemove}
    IN  [x \in (DOMAIN cache) \ removed |-> cache[x]]

\* a faulty Set that evicts on every call
setEvictingAlways(cache, cap, key, value) ==
    [x \in (DOMAIN evictHalf(cache)) \cup {key} |->
        IF x = key THEN value ELSE evictHalf(cache)[x]]

\* func (c *SchemaCache) Set(key, value string)
CacheSet(cache, cap, key, value) ==
    LET c1 == IF Cardinality(DOMAIN cache) >= cap THEN evictHalf(cache) ELSE cache
    IN  [x \in (DOMAIN c1) \cup {key} |-> IF x = key THEN value ELSE c1[x]]

\* a faulty store, keyed by the digest of the result
storeUnderResult(cache, cap, hash, r) ==
    [out |-> r.out,
     cache |-> IF r.store THEN CacheSet(cache, cap, computeHash(r.out), r.out) ELSE cache,
     served |-> "miss"]

\* schemaCache.Set(hash, result) and the return, on the outcome r of a miss
storeOutcome(cache, cap, hash, r) ==
    [out |-> r.out,
     cache |-> IF r.store THEN CacheSet(cache, cap, hash, r.out) ELSE cache,
     served |-> "miss"]

\* func CleanJSONSchemaForAntigravityOptimized(jsonStr string) string
\* [out, cache]: the return value and the cache afterwards
CleanJSONSchemaForAntigravityOptimized(cache, cap, text) ==
    IF CacheGet(cache, computeHash(text)).ok
    THEN [out |-> CacheGet(cache, computeHash(text)).val, cache |-> cache,
          served |-> "hit"]
    ELSE storeOutcome(cache, cap, computeHash(text), cleanUncached(text))

\* a normalizer call ends with outcome r: its return value and the cache after it
Returns(r) == result' = r.out /\ schemaCache' = r.cache /\ served' = r.served

\* A caller normalizes a text of the pool
Normalize(t) ==
    /\ Returns(CleanJSONSchemaForAntigravityOptimized(schemaCache, maxSize, t))
    /\ jsonStr' = t
    /\ fedBack' = FALSE
    /\ passes' = 0
    /\ UNCHANGED <<maxSize, pool, stats>>
    /\ UNCHANGED transVars

\* A caller normalizes the text the previous call returned
NormalizeResult ==
    /\ IsText(result)
    /\ passes < MaxPasses
    /\ Returns(CleanJSONSchemaForAntigravityOptimized(schemaCache, maxSize, result))
    /\ jsonStr' = result
    /\ fedBack' = TRUE
    /\ passes' = passes + 1
    /\ UNCHANGED <<maxSize, pool, stats>>
    /\ UNCHANGED transVars

\* func ClearSchemaCache()
ClearSchemaCache ==
    /\ schemaCache' = [x \in {} |-> NoText]
    /\ UNCHANGED <<maxSize, pool, jsonStr, result, fedBack, passes, stats, served>>
    /\ UNCHANGED transVars

\* func GetSchemaCacheStats() (size int, maxSize int)
GetSchemaCacheStats ==
    /\ stats' = <<Cardinality(DOMAIN schemaCache), maxSize>>
    /\ UNCHANGED <<schemaCache, maxSize, pool, jsonStr, result, fedBack, passes, served>>
    /\ UNCHANGED transVars

(***************************************************************************)
(* The schema texts the normalizer specification starts from               *)
(***************************************************************************)
PlainString == Obj([type |-> Str("string")])
NullableString == Obj([type |-> Arr(<<Str("string"), Str("null")>>)])

\* schemas of a property named "a"
LeafSchemas ==
    { PlainString,
      NullableString,
      Obj([type |-> Arr(<<Str("null")>>)]),
      Obj([type |-> Arr(<<Str("integer"), Str("string"), Str("null")>>),
           description |-> Str("d")]),
      Obj([enum |-> Arr(<<Str("x"), Str("y")>>)]),
      Obj([const |-> Num("1")]),
      Obj("$ref" :> Str("#/$defs/P") @@ "description" :> Str("d")),
      Obj([type |-> Str("string"), format |-> Str("email")]),
      Obj([type |-> Str("object")]),
      Obj([anyOf |-> Arr(<<Obj([type |-> Str("object"),
                                properties |-> Obj([b |-> PlainString])]),
                           Obj([type |-> Str("null")])>>)]),
      Obj([type |-> Str("object"),
           properties |-> Obj([b |-> NullableString]),
           required |-> Arr(<<Str("b")>>),
           additionalProperties |-> Bool("false")]),
      Obj([allOf |-> Arr(<<Obj([properties |-> Obj([a |-> PlainString]),
                                required |-> Arr(<<Str("a")>>)]),
                           Obj([properties |-> Obj([b |-> NullableString]),
                                required |-> Arr(<<Str("b")>>)])>>)]) }

\* property names, in the order generated required lists name them; "ghost"
\* is never a property
RequiredOrder == <<"a", "b", "definitions", "const", "ghost">>
PropNames == {"a", "b", "definitions", "const"}

\* the schemas a property of that name takes
Choices(name) ==
    IF name = "a" THEN LeafSchemas
    ELSE IF name = "b" THEN {PlainString, NullableString}
    ELSE {PlainString}

\* the members of names in RequiredOrder, as a JSON array
RequiredList(names) ==
    LET RECURSIVE Up(_)
        Up(i) == IF i > Len(RequiredOrder) THEN <<>>
                 ELSE (IF RequiredOrder[i] \in names THEN <<Str(RequiredOrder[i])>>
                       ELSE <<>>) \o Up(i + 1)
    IN  Arr(Up(1))

\* object schemas: up to MaxProps properties, required over them and "ghost"
ObjectSchemas ==
    UNION { UNION { { IF R = {}
                      THEN Obj([type |-> Str("object"), properties |-> Obj(f)])
                      ELSE Obj([type |-> Str("object"), properties |-> Obj(f),
                                required |-> RequiredList(R)])
                      : R \in SUBSET (S \cup {"ghost"}) }
                    : f \in {g \in [S -> LeafSchemas] : \A n \in S : g[n] \in Choices(n)} }
            : S \in {T \in SUBSET PropNames : Cardinality(T) <= MaxProps} }

\* schemas written out one by one
SpecialSchemas ==
    { Obj([type |-> Str("string"), required |-> Arr(<<Str("a")>>)]),
      Obj([enum |-> Arr(<<Str("x"), Str("y")>>)]),
      Obj([type |-> Str("object")]),
      Obj("$ref" :> Str("#/definitions/Root")),
      Obj([anyOf |-> Arr(<<Obj([type |-> Str("object"),
                                properties |-> Obj([a |-> PlainString])]),
                           Obj([type |-> Str("null")])>>)]),
      Str("not a schema"),
      Arr(<<Obj([type |-> Arr(<<Str("integer"), Str("null")>>)])>>) }

\* every object schema at the root, as the property "user" of the root, and
\* as the items of an array
SchemaValues ==
    ObjectSchemas
    \cup { Obj([type |-> Str("object"), properties |-> Obj([user |-> o]),
                required |-> Arr(<<Str("user")>>)]) : o \in ObjectSchemas }
    \cup { Obj([type |-> Str("array"), items |-> o]) : o \in ObjectSchemas }
    \cup SpecialSchemas

SchemaTexts ==
    { Text("compact", x) : x \in SchemaValues }
    \cup { Text("pretty", x) : x \in SpecialSchemas }
    \cup { Text("invalid", Str("{")) }

\* most members of a generated union
MaxMembers == 3

\* members of a union: of every rank, typed and untyped, with a description,
\* and one that is not a schema object
UnionMembers ==
    { PlainString,
      Obj([type |-> Str("null")]),
      Obj(EmptyMap),
      Obj([type |-> Str("object"), properties |-> Obj([a |-> PlainString])]),
      Obj([properties |-> Obj([b |-> PlainString])]),
      Obj([type |-> Str("array"), items |-> PlainString]),
      Obj([items |-> PlainString, description |-> Str("n")]),
      Obj([type |-> Str("integer"), minLength |-> Num("1"), const |-> Num("7")]),
      Str("x") }

\* a union of up to MaxMembers members, the empty union included, under
\* either keyword, alone in its node or next to a description
UnionSchemas ==
    UNION { UNION { { Obj([anyOf |-> Arr(q)]),
                      Obj([oneOf |-> Arr(q)]),
                      Obj([anyOf |-> Arr(q), description |-> Str("d")]) }
                    : q \in [1..n -> UnionMembers] }
            : n \in 0..MaxMembers }

UnionTexts == { Text("compact", x) : x \in UnionSchemas }

\* nodes with a string $ref: three spellings of the reference, with and
\* without a description, alone and next to other keys and a subtree
RefNodes ==
    UNION { { Obj("$ref" :> Str(r)),
              Obj("$ref" :> Str(r) @@ "description" :> Str("d")),
              Obj("$ref" :> Str(r) @@ "type" :> Str("string")
                  @@ "properties" :> Obj([a |-> NullableString])
                  @@ "required" :> Arr(<<Str("a")>>)),
              Obj("$ref" :> Str(r) @@ "description" :> Str("d")
                  @@ "enum" :> Arr(<<Str("x"), Str("y")>>)) }
            : r \in {"#/$defs/P", "P", "#/definitions/a/b"} }

\* a $ref node at the root, as a property, as the items of an array, and as
\* a member of a union and of an allOf
RefSchemas ==
    UNION { { n,
              Obj([type |-> Str("object"), properties |-> Obj([a |-> n]),
                   required |-> Arr(<<Str("a")>>)]),
              Obj([type |-> Str("array"), items |-> n]),
              Obj([anyOf |-> Arr(<<n, Obj([type |-> Str("null")])>>)]),
              Obj([type |-> Str("object"), allOf |-> Arr(<<n>>)]) }
            : n \in RefNodes }

RefTexts == { Text("compact", x) : x \in RefSchemas }

\* values of a kind the keyword they stand under does not expect
OddValues == {Str("none"), Num("1"), Null, Arr(<<Num("1")>>), Obj(EmptyMap)}

\* nodes with such a value under required, enum, type, properties or items,
\* alone and next to an allOf, at the root and as a property
OddNodes ==
    UNION { { Obj(key :> v),
              Obj(key :> v @@ "allOf" :> Arr(<<Obj([type |-> Str("object")])>>)) }
            : key \in {"required", "enum", "type", "properties", "items"},
              v \in OddValues }

OddSchemas ==
    OddNodes \cup { Obj([type |-> Str("object"), properties |-> Obj([a |-> n])])
                      : n \in OddNodes }

OddTexts == { Text("compact", x) : x \in OddSchemas }

CacheTexts == { RankedTexts[i] : i \in 1..Len(RankedTexts) }


(***************************************************************************)
(* Signature cache (package internal/cache) and model classifier           *)
(* (util.IsClaudeThinkingModel).  Their code is outside this source tree:  *)
(* they are modelled from their contract, a lookup (model, thinking text)  *)
(* -> token ("" when absent) and a pure validity predicate on (model,      *)
(* token) that is false on the empty token.                                *)
(***************************************************************************)
ClaudeModel == "claude-sonnet-4-5-thinking"
GeminiModel == "gemini-2.5-pro"
ModelNames == {ClaudeModel}

\* the (model, token) pairs that validate; "" is the model the V2 tool_use
\* translation validates against
ValidSignatures ==
    { <<ClaudeModel, "sigA">>, <<"", "sigA">>,
      <<ClaudeModel, "sigB">>,
      <<GeminiModel, "sigC">>, <<"", "sigC">> }

\* the cached tokens by (model, thinking text); "sigOld" no longer validates
SignatureEntries ==
    <<ClaudeModel, "plan A">> :> "sigA" @@ <<ClaudeModel, "plan old">> :> "sigOld"

\* cache.HasValidSignature(modelName, signature)
HasValidSignature(model, signature) ==
    signature # "" /\ <<model, signature>> \in ValidSignatures

\* cache.GetCachedSignature(modelName, text)
GetCachedSignature(model, text) ==
    IF <<model, text>> \in DOMAIN SignatureEntries
    THEN SignatureEntries[<<model, text>>] ELSE ""

\* util.IsClaudeThinkingModel(modelName)
IsClaudeThinkingModel(model) == Contains(model, "claude") /\ Contains(model, "thinking")

(***************************************************************************)
(* Source request (ClaudeRequest) and target request (AntigravityRequest)  *)
(***************************************************************************)
\* a json.RawMessage / gjson.Result that is not there
Absent == [k |-> "absent", s |-> ""]

\* *ImageSource
NoSource == [present |-> FALSE, type |-> "", media_type |-> "", data |-> ""]

\* type ClaudeContentItem struct, all members at their zero value
Block(type) ==
    [type |-> type, text |-> "", signature |-> "", thinking |-> "", name |-> "",
     id |-> "", input |-> Absent, tool_use_id |-> "", content |-> Absent,
     source |-> NoSource]

\* type ClaudeThinking struct (present: the pointer is not nil)
NoThinking == [present |-> FALSE, type |-> "", hasBudget |-> FALSE, budget |-> 0]
Thinking(type) == [present |-> TRUE, type |-> type, hasBudget |-> FALSE, budget |-> 0]
ThinkingBudget(type, b) == [present |-> TRUE, type |-> type, hasBudget |-> TRUE, budget |-> b]

\* the system member of the request
NoSystem == [kind |-> "absent", str |-> "", items |-> <<>>]

\* type ClaudeRequest struct, as far as it has been read; sampling holds the
\* names of the members temperature, top_p, top_k, max_tokens that are set
NoRequest ==
    [userID |-> "", system |-> NoSystem, messages |-> <<>>, tools |-> <<>>,
     thinking |-> NoThinking, sampling |-> {}]

\* type Part struct; kind names the member that is set ("text" when none of
\* FunctionCall, FunctionResponse, InlineData is), "nil" is the nil *Part.
\* src is the position of the source block in its message.
NoPart ==
    [kind |-> "nil", text |-> "", thought |-> FALSE, thoughtSignature |-> "",
     id |-> "", name |-> "", args |-> Absent, response |-> Absent,
     mimeType |-> "", data |-> "", src |-> 0]
TextPart(text, src) == [NoPart EXCEPT !.kind = "text", !.text = text, !.src = src]

\* *ContentItem for the system instruction
NoContent == [present |-> FALSE, role |-> "", parts |-> <<>>]
UserContent(parts) == [present |-> TRUE, role |-> "user", parts |-> parts]

\* *ThinkingConfig and *GenerationConfig
NoThinkingConfig ==
    [present |-> FALSE, hasBudget |-> FALSE, thinkingBudget |-> 0,
     thinkingLevel |-> "", includeThoughts |-> FALSE]
NoGenerationConfig ==
    [present |-> FALSE, thinkingConfig |-> NoThinkingConfig, sampling |-> {}]

\* output := AntigravityRequest{Model: modelName, Request: RequestContent{Contents: []ContentItem{}}}
NewOutput(model) ==
    [model |-> model, systemInstruction |-> NoContent, contents |-> <<>>,
     tools |-> <<>>, generationConfig |-> NoGenerationConfig]

(***************************************************************************)
(* Content block translators                                               *)
(***************************************************************************)
\* strings.Index(s, sub), 1-based; 0 when absent
Index(s, sub) ==
    LET hits == {i \in 1..(Len(s) - Len(sub) + 1) : SubSeq(s, i, i + Len(sub) - 1) = sub}
    IN  IF hits = {} THEN 0 ELSE CHOOSE i \in hits : \A j \in hits : i <= j

\* the client signature fallback: strings.SplitN(sig, "#", 2), the model
\* comparison and the validation of the token
clientSignature(sig, model) ==
    IF sig = "" \/ FirstIndex(sig, "#") = 0 THEN ""
    ELSE IF model = SubSeq(sig, 1, FirstIndex(sig, "#") - 1)
            /\ HasValidSignature(model, SubSeq(sig, FirstIndex(sig, "#") + 1, Len(sig)))
    THEN SubSeq(sig, FirstIndex(sig, "#") + 1, Len(sig))
    ELSE ""

\* thinking text: the "thinking" member, else the "text" member
GetThinkingText(ci) == IF ci.thinking # "" THEN ci.thinking ELSE ci.text

\* the thought part, or the skip that disables thought translation
thoughtOrSkip(thinkingText, signature, model, enable, src) ==
    IF ~HasValidSignature(model, signature)
    THEN [part |-> NoPart, signature |-> "", skip |-> TRUE, enable |-> FALSE]
    ELSE [part |-> [NoPart EXCEPT !.kind = "text", !.text = thinkingText,
                                  !.thought = TRUE, !.thoughtSignature = signature,
                                  !.src = src],
          signature |-> signature, skip |-> FALSE, enable |-> enable]

\* a faulty thinking translator that emits the cached token unvalidated
emitCachedUnvalidated(ci, model, enable, src) ==
    IF GetThinkingText(ci) # "" /\ GetCachedSignature(model, GetThinkingText(ci)) # ""
    THEN [part |-> [NoPart EXCEPT !.kind = "text", !.text = GetThinkingText(ci),
                                  !.thought = TRUE,
                                  !.thoughtSignature =
                                      GetCachedSignature(model, GetThinkingText(ci)),
                                  !.src = src],
          signature |-> GetCachedSignature(model, GetThinkingText(ci)),
          skip |-> FALSE, enable |-> enable]
    ELSE thoughtOrSkip(GetThinkingText(ci), clientSignature(ci.signature, model),
                       model, enable, src)

\* func processThinkingContentV2(ci, modelName, enableThoughtTranslate)
\* [part, signature, skip, enable]: enable is *enableThoughtTranslate afterwards
processThinkingContentV2(ci, model, enable, src) ==
    thoughtOrSkip(GetThinkingText(ci),
                  IF GetThinkingText(ci) # ""
                     /\ GetCachedSignature(model, GetThinkingText(ci)) # ""
                  THEN GetCachedSignature(model, GetThinkingText(ci))
                  ELSE clientSignature(ci.signature, model),
                  model, enable, src)

\* func processThinkingContent(contentResult, modelName, sessionID, enableThoughtTranslate)
processThinkingContent(ci, model, session, enable, src) ==
    thoughtOrSkip(GetThinkingText(ci),
                  IF session # "" /\ GetThinkingText(ci) # ""
                     /\ GetCachedSignature(model, GetThinkingText(ci)) # ""
                  THEN GetCachedSignature(model, GetThinkingText(ci))
                  ELSE clientSignature(ci.signature, model),
                  model, enable, src)

\* a text that is no JSON value, carried as json.RawMessage
Raw(text) == [k |-> "raw", s |-> text]

\* gjson.Parse(argsResult.String()): a text that begins with "{" is taken
\* whole as an object, without validation
parseObject(text) ==
    IF text = "{\"q\":1}" THEN [ok |-> TRUE, val |-> Obj([q |-> Num("1")])]
    ELSE IF Len(text) > 0 /\ SubSeq(text, 1, 1) = "{"
         THEN [ok |-> TRUE, val |-> Raw(text)]
    ELSE [ok |-> FALSE, val |-> Absent]

\* sonic.UnmarshalString(inputStr, &inputObj) into a map: an object fills
\* the map, null leaves it nil, and neither is an error
unmarshalMap(text) ==
    IF text = "{\"q\":1}" THEN [ok |-> TRUE, val |-> Obj([q |-> Num("1")])]
    ELSE IF text = "null" THEN [ok |-> TRUE, val |-> Null]
    ELSE [ok |-> FALSE, val |-> Absent]

\* argsRaw of processToolUseContent: the object, or the object a string
\* holds; Absent when there is none
toolArgs(input) ==
    IF IsObj(input) THEN input
    ELSE IF IsStr(input) /\ parseObject(input.s).ok THEN parseObject(input.s).val
    ELSE Absent

\* ci.Input after the checks of processToolUseContentV2: an input that
\* unmarshals into a map (an object, null) is kept as it is, a string is
\* replaced by the marshalled map it holds; Absent when the call returns nil
toolArgsV2(input) ==
    IF input = Absent THEN Absent
    ELSE IF IsObj(input) \/ input = Null THEN input
    ELSE IF IsStr(input) /\ unmarshalMap(input.s).ok THEN unmarshalMap(input.s).val
    ELSE Absent

skipSentinel == "skip_thought_signature_validator"

\* the function-call part with the signature validated against model
functionCallPart(ci, args, model, signature, src) ==
    IF args = Absent THEN NoPart
    ELSE [NoPart EXCEPT !.kind = "functionCall",
                        !.thoughtSignature =
                            IF HasValidSignature(model, signature)
                            THEN signature ELSE skipSentinel,
                        !.id = ci.id, !.name = ci.name,
                        !.args = args, !.src = src]

\* func processToolUseContentV2(ci, currentMessageThinkingSignature)
processToolUseContentV2(ci, signature, src) ==
    functionCallPart(ci, toolArgsV2(ci.input), "", signature, src)

\* func processToolUseContent(contentResult, modelName, currentMessageThinkingSignature)
processToolUseContent(ci, model, signature, src) ==
    functionCallPart(ci, toolArgs(ci.input), model, signature, src)

\* a faulty derivation that strips one segment only
dropLastSegment(toolUseID) ==
    IF Len(Split(toolUseID, "-")) > 1
    THEN Join(SubSeq(Split(toolUseID, "-"), 1, Len(Split(toolUseID, "-")) - 1), "-")
    ELSE toolUseID

\* funcName of a tool_result: strings.Join(toolCallIDs[0:len(toolCallIDs)-2], "-")
funcNameOf(toolUseID) ==
    IF Len(Split(toolUseID, "-")) > 1
    THEN Join(SubSeq(Split(toolUseID, "-"), 1, Len(Split(toolUseID, "-")) - 2), "-")
    ELSE toolUseID

\* response["result"] of a single-element array is the element
resultOf(content) ==
    IF IsArr(content) /\ Len(content.a) = 1 THEN content.a[1] ELSE content

\* func processToolResultContentV2(ci): no result for an absent content
processToolResultContentV2(ci, src) ==
    IF ci.tool_use_id = "" THEN NoPart
    ELSE [NoPart EXCEPT !.kind = "functionResponse", !.id = ci.tool_use_id,
                        !.name = funcNameOf(ci.tool_use_id),
                        !.response = IF ci.content = Absent THEN Obj(EmptyMap)
                                     ELSE Obj([result |-> resultOf(ci.content)]),
                        !.src = src]

\* func processToolResultContent(contentResult): result is nil for an absent content
processToolResultContent(ci, src) ==
    IF ci.tool_use_id = "" THEN NoPart
    ELSE [NoPart EXCEPT !.kind = "functionResponse", !.id = ci.tool_use_id,
                        !.name = funcNameOf(ci.tool_use_id),
                        !.response = IF ci.content = Absent THEN Obj([result |-> Null])
                                     ELSE Obj([result |-> resultOf(ci.content)]),
                        !.src = src]

\* func processImageContentV2(ci) and func processImageContent(contentResult)
processImageContentV2(ci, src) ==
    IF ~ci.source.present \/ ci.source.type # "base64" THEN NoPart
    ELSE [NoPart EXCEPT !.kind = "inlineData", !.mimeType = ci.source.media_type,
                        !.data = ci.source.data, !.src = src]

(***************************************************************************)
(* The message loop                                                        *)
(***************************************************************************)
\* the loop's variables as one record
LoopState ==
    [role |-> role, enable |-> enableThoughtTranslate,
     signature |-> currentMessageThinkingSignature,
     thinkingParts |-> thinkingParts, otherParts |-> otherParts,
     parts |-> clientContent]

\* the loop's variables after an iteration
Becomes(st) ==
    /\ enableThoughtTranslate' = st.enable
    /\ currentMessageThinkingSignature' = st.signature
    /\ thinkingParts' = st.thinkingParts
    /\ otherParts' = st.otherParts
    /\ clientContent' = st.parts
    /\ role' = st.role

\* if part != nil { if role == "model" { list = append(list, *part) } else
\* { clientContent.Parts = append(clientContent.Parts, *part) } }
appendPart(st, part, list) ==
    IF part.kind = "nil" THEN st
    ELSE IF st.role = "model" THEN [st EXCEPT ![list] = Append(@, part)]
    ELSE [st EXCEPT !.parts = Append(@, part)]

\* case "thinking", on the outcome r of the thinking translator
thinkingCase(st, r, model) ==
    IF r.skip THEN [st EXCEPT !.enable = r.enable]
    ELSE appendPart([st EXCEPT !.enable = r.enable,
                               !.signature = IF HasValidSignature(model, r.signature)
                                             THEN r.signature ELSE @],
                    r.part, "thinkingParts")

\* one iteration of the loop over contentArray in ConvertClaudeRequestToAntigravityV2
contentCaseV2(st, ci, model, src) ==
    CASE ci.type = "thinking" ->
             thinkingCase(st, processThinkingContentV2(ci, model, st.enable, src), model)
      [] ci.type = "text" -> appendPart(st, TextPart(ci.text, src), "otherParts")
      [] ci.type = "tool_use" ->
             appendPart(st, processToolUseContentV2(ci, st.signature, src), "otherParts")
      [] ci.type = "tool_result" ->
             appendPart(st, processToolResultContentV2(ci, src), "otherParts")
      [] ci.type = "image" -> appendPart(st, processImageContentV2(ci, src), "otherParts")
      [] OTHER -> st

\* one iteration of the loop in ConvertClaudeRequestToAntigravityOptimized
contentCaseOptimized(st, ci, model, session, src) ==
    CASE ci.type = "thinking" ->
             thinkingCase(st, processThinkingContent(ci, model, session, st.enable, src),
                          model)
      [] ci.type = "text" -> appendPart(st, TextPart(ci.text, src), "otherParts")
      [] ci.type = "tool_use" ->
             appendPart(st, processToolUseContent(ci, model, st.signature, src),
                        "otherParts")
      [] ci.type = "tool_result" ->
             appendPart(st, processToolResultContent(ci, src), "otherParts")
      [] ci.type = "image" -> appendPart(st, processImageContentV2(ci, src), "otherParts")
      [] OTHER -> st

\* a faulty merge that puts the thought parts last
othersFirst(thinking, other) == other \o thinking

\* clientContent.Parts = append(thinkingParts, otherParts...)
mergeParts(thinking, other) == thinking \o other

\* the parts of the finished message
finalParts(st) ==
    IF st.role = "model" THEN mergeParts(st.thinkingParts, st.otherParts) ELSE st.parts

\* type ContentItem struct; msg is the position of the source message
ContentItem(r, parts, msg) == [role |-> r, parts |-> parts, msg |-> msg]

\* role of the turn of a message
targetRole(r) == IF r = "assistant" THEN "model" ELSE r

(***************************************************************************)
(* System instruction, tools, thinking hint, generation config             *)
(***************************************************************************)
RECURSIVE systemParts(_, _)
\* the text parts of a system array; keepEmpty: parts of empty text are kept
systemParts(q, keepEmpty) ==
    IF Len(q) = 0 THEN <<>>
    ELSE (IF q[1].type = "text" /\ (keepEmpty \/ q[1].text # "")
          THEN <<TextPart(q[1].text, 0)>> ELSE <<>>) \o systemParts(Tail(q), keepEmpty)

\* system instruction of ConvertClaudeRequestToAntigravityV2: [has, item]
systemInstructionV2(system) ==
    IF system.kind = "array"
    THEN [has |-> Len(systemParts(system.items, FALSE)) > 0,
          item |-> IF Len(systemParts(system.items, FALSE)) > 0
                   THEN UserContent(systemParts(system.items, FALSE)) ELSE NoContent]
    ELSE IF system.kind = "string" /\ system.str # ""
    THEN [has |-> TRUE, item |-> UserContent(<<TextPart(system.str, 0)>>)]
    ELSE [has |-> FALSE, item |-> NoContent]

\* system instruction of ConvertClaudeRequestToAntigravityOptimized: [has, item]
systemInstructionOptimized(system) ==
    IF system.kind = "array"
    THEN [has |-> Len(systemParts(system.items, TRUE)) > 0,
          item |-> IF Len(systemParts(system.items, TRUE)) > 0
                   THEN UserContent(systemParts(system.items, TRUE)) ELSE NoContent]
    ELSE IF system.kind = "string"
    THEN [has |-> TRUE, item |-> UserContent(<<TextPart(system.str, 0)>>)]
    ELSE [has |-> FALSE, item |-> NoContent]

\* func deriveSessionIDOptimized(rawJSON), on a metadata.user_id that holds
\* "session_"
deriveSessionIDOptimized(userID) ==
    IF Index(userID, "session_") # 0
    THEN SubSeq(userID, Index(userID, "session_") + 8, Len(userID))
    ELSE ""

\* type FunctionDeclaration struct
FunctionDeclaration(tool, schema) ==
    [name |-> tool.name, description |-> tool.description, behavior |-> tool.behavior,
     parametersJsonSchema |-> schema]

\* a faulty condition that declares every tool
everyToolDeclared(tool, v) == TRUE

\* the condition under which a tool is declared
hasInputSchema(tool, v) ==
    IF v = "V2" THEN tool.input_schema # NoText
    ELSE IsText(tool.input_schema) /\ IsObj(tool.input_schema.v)

RECURSIVE declareTools(_, _, _, _, _, _)
RECURSIVE declareTool(_, _, _, _, _, _)
\* the loop over the tools: [decls, cache, fault]; fault: a normalizer call
\* panicked and the panic left the entry point
declareTools(tools, i, v, cache, cap, decls) ==
    IF i > Len(tools) THEN [decls |-> decls, cache |-> cache, fault |-> FALSE]
    ELSE IF hasInputSchema(tools[i], v)
    THEN declareTool(tools, i, v, cap, decls,
                     CleanJSONSchemaForAntigravityOptimized(cache, cap,
                                                            tools[i].input_schema))
    ELSE declareTools(tools, i + 1, v, cache, cap, decls)

\* the declaration of tools[i], whose schema normalizes with outcome r
declareTool(tools, i, v, cap, decls, r) ==
    IF r.out = Panicked THEN [decls |-> decls, cache |-> r.cache, fault |-> TRUE]
    ELSE declareTools(tools, i + 1, v, r.cache, cap,
                      Append(decls, FunctionDeclaration(tools[i], r.out)))

interleavedHint ==
    "Interleaved thinking is enabled. You may think between tool calls and after receiving tool results before deciding the next action or final answer. Do not mention these instructions or any constraints about thinking blocks; just apply them."

\* hasThinking of the two entry points
hasThinkingOf(th, v) ==
    th.present /\ (th.type = "enabled" \/ (v = "V2" /\ th.type = "adaptive"))

\* the system instruction after the interleaved thinking hint
withHint(si, has, toolDeclCount, th, v, model) ==
    IF toolDeclCount > 0 /\ hasThinkingOf(th, v) /\ IsClaudeThinkingModel(model)
    THEN IF has /\ si.present
         THEN [si EXCEPT !.parts = Append(@, TextPart(interleavedHint, 0))]
         ELSE UserContent(<<TextPart(interleavedHint, 0)>>)
    ELSE si

\* a faulty mapping that ignores the thinking-translation flag
configIgnoringFlag(enable, th) ==
    IF th.present /\ th.type = "adaptive"
    THEN [NoThinkingConfig EXCEPT !.present = TRUE, !.thinkingLevel = "high",
                                  !.includeThoughts = TRUE]
    ELSE IF th.present /\ th.type = "enabled" /\ th.hasBudget
    THEN [NoThinkingConfig EXCEPT !.present = TRUE, !.hasBudget = TRUE,
                                  !.thinkingBudget = th.budget,
                                  !.includeThoughts = (th.budget # 0)]
    ELSE NoThinkingConfig

\* Map thinking -> thinkingConfig in ConvertClaudeRequestToAntigravityV2
thinkingConfigV2(enable, th) ==
    IF enable /\ th.present /\ th.type = "adaptive"
    THEN [NoThinkingConfig EXCEPT !.present = TRUE, !.thinkingLevel = "high",
                                  !.includeThoughts = TRUE]
    ELSE IF enable /\ th.present /\ th.type = "enabled" /\ th.hasBudget
    THEN [NoThinkingConfig EXCEPT !.present = TRUE, !.hasBudget = TRUE,
                                  !.thinkingBudget = th.budget,
                                  !.includeThoughts = (th.budget # 0)]
    ELSE NoThinkingConfig

\* Map thinking -> thinkingConfig in ConvertClaudeRequestToAntigravityOptimized
thinkingConfigOptimized(enable, th) ==
    IF enable /\ th.present /\ th.type = "enabled" /\ th.hasBudget
    THEN [NoThinkingConfig EXCEPT !.present = TRUE, !.hasBudget = TRUE,
                                  !.thinkingBudget = th.budget,
                                  !.includeThoughts = TRUE]
    ELSE NoThinkingConfig

\* genConfig, attached when hasGenConfig
generationConfigOf(tc, sampling) ==
    IF tc.present \/ sampling # {}
    THEN [present |-> TRUE, thinkingConfig |-> tc, sampling |-> sampling]
    ELSE NoGenerationConfig

(***************************************************************************)
(* The requests the translation specifications read                        *)
(***************************************************************************)
\* most constituents of a request: system, string contents, content blocks,
\* tools, thinking directive and sampling settings
MaxItems == 3

ThinkingBlocks ==
    { [Block("thinking") EXCEPT !.thinking = "plan A"],
      [Block("thinking") EXCEPT !.thinking = "plan B",
                                !.signature = ClaudeModel \o "#sigB"],
      [Block("thinking") EXCEPT !.thinking = "plan old",
                                !.signature = ClaudeModel \o "#sigA"],
      [Block("thinking") EXCEPT !.text = "plan C",
                                !.signature = GeminiModel \o "#sigC"] }

OtherBlocks ==
    { [Block("text") EXCEPT !.text = "hello"],
      [Block("tool_use") EXCEPT !.id = "call-1", !.name = "search",
                                !.input = Obj([q |-> Num("1")])],
      [Block("tool_use") EXCEPT !.id = "call-2", !.name = "search"],
      [Block("tool_result") EXCEPT !.tool_use_id = "call-abc-123-456",
                                   !.content = Str("ok")],
      [Block("image") EXCEPT !.source = [present |-> TRUE, type |-> "base64",
                                         media_type |-> "image/png",
                                         data |-> "aGk="]] }

ContentBlocks == ThinkingBlocks \cup OtherBlocks

MessageRoles == {"user", "assistant"}
StringContents == {"", "hi"}

SystemChoices ==
    { NoSystem,
      [kind |-> "string", str |-> "Be brief", items |-> <<>>],
      [kind |-> "array", str |-> "",
       items |-> <<[type |-> "text", text |-> ""],
                   [type |-> "text", text |-> "Be brief"]>>] }

\* metadata.user_id: a session id, and none after the marker
UserIDs == {"user_1_session_abc", "user_1_session_"}

\* type ClaudeTool struct
Tool(name, schema) ==
    [name |-> name, description |-> "", input_schema |-> schema, behavior |-> ""]

ToolLists ==
    { <<>>,
      <<Tool("search", Text("compact", Obj([type |-> Str("object")])))>>,
      <<Tool("ping", NoText)>>,
      <<Tool("ping", NoText),
        Tool("search", Text("compact", Obj([type |-> Str("object")])))>> }

ThinkingChoices ==
    { NoThinking, Thinking("enabled"), ThinkingBudget("enabled", 0 - 1),
      ThinkingBudget("enabled", 0), ThinkingBudget("enabled", 2048),
      Thinking("adaptive"), ThinkingBudget("adaptive", 0), Thinking("disabled") }

SamplingChoices == { {}, {"temperature", "max_tokens"} }

(***************************************************************************)
(* The translation, step by step                                           *)
(***************************************************************************)
\* the loop variables between messages
LoopIdle ==
    /\ role' = ""
    /\ currentMessageThinkingSignature' = ""
    /\ thinkingParts' = <<>>
    /\ otherParts' = <<>>
    /\ clientContent' = <<>>

\* the system instruction of the entry point
systemInstructionOf(system) ==
    IF variant = "V2" THEN systemInstructionV2(system)
    ELSE systemInstructionOptimized(system)

\* The request is parsed and the system instruction is built
StartRequest(model, system, userID) ==
    /\ pc = "start"
    /\ pc' = "messages"
    /\ modelName' = model
    /\ sessionID' = IF variant = "Optimized" THEN deriveSessionIDOptimized(userID) ELSE ""
    /\ req' = [NoRequest EXCEPT !.system = system, !.userID = userID]
    /\ items' = IF system.kind = "absent" THEN 0 ELSE 1
    /\ enableThoughtTranslate' = TRUE
    /\ hasSystemInstruction' = systemInstructionOf(system).has
    /\ output' = [NewOutput(model) EXCEPT
                      !.systemInstruction = systemInstructionOf(system).item]
    /\ LoopIdle
    /\ UNCHANGED <<applied, normalizing, calls, variant, schemaVars>>

\* sonic.Unmarshal fails: the legacy translation answers
FallbackToLegacy ==
    /\ pc = "start"
    /\ variant = "V2"
    /\ pc' = "legacy"
    /\ UNCHANGED <<applied, normalizing, calls, variant, modelName, sessionID, items, req, loopVars,
                   hasSystemInstruction, output, schemaVars>>

\* A message whose content is an array (of at least one block) starts
BeginMessage(r) ==
    /\ pc = "messages"
    /\ items < MaxItems
    /\ pc' = "blocks"
    /\ req' = [req EXCEPT !.messages =
                  Append(@, [role |-> r, isString |-> FALSE, str |-> "", content |-> <<>>])]
    /\ role' = targetRole(r)
    /\ currentMessageThinkingSignature' = ""
    /\ thinkingParts' = <<>>
    /\ otherParts' = <<>>
    /\ clientContent' = <<>>
    /\ UNCHANGED <<applied, normalizing, calls, variant, modelName, sessionID, items, enableThoughtTranslate,
                   hasSystemInstruction, output, schemaVars>>

\* one iteration of the loop of the entry point
contentCase(ci, src) ==
    IF variant = "V2" THEN contentCaseV2(LoopState, ci, modelName, src)
    ELSE contentCaseOptimized(LoopState, ci, modelName, sessionID, src)

\* The next content block of the message is translated
ProcessBlock(ci) ==
    /\ pc = "blocks"
    /\ items < MaxItems
    /\ items' = items + 1
    /\ req' = [req EXCEPT !.messages[Len(req.messages)].content = Append(@, ci)]
    /\ Becomes(contentCase(ci, Len(req.messages[Len(req.messages)].content) + 1))
    /\ UNCHANGED <<applied, normalizing, calls, variant, modelName, sessionID, pc, hasSystemInstruction, output,
                   schemaVars>>

\* the contents after the message: a turn is appended when it has parts
withTurn(contents, r, parts, msg) ==
    IF Len(parts) > 0 THEN Append(contents, ContentItem(r, parts, msg)) ELSE contents

\* The message ends
EndMessage ==
    /\ pc = "blocks"
    /\ Len(req.messages[Len(req.messages)].content) > 0
    /\ pc' = "messages"
    /\ output' = [output EXCEPT !.contents =
                     withTurn(@, role, finalParts(LoopState), Len(req.messages))]
    /\ LoopIdle
    /\ UNCHANGED <<applied, normalizing, calls, variant, modelName, sessionID, items, req, enableThoughtTranslate,
                   hasSystemInstruction, schemaVars>>

\* the contents after a message whose content is the string str
withStringTurn(contents, r, str, msg) ==
    IF variant = "V2" /\ str = "" THEN contents
    ELSE Append(contents, ContentItem(r, <<TextPart(str, 0)>>, msg))

\* A message whose content is a string is translated
StringMessage(r, str) ==
    /\ pc = "messages"
    /\ items < MaxItems
    /\ items' = items + 1
    /\ req' = [req EXCEPT !.messages =
                  Append(@, [role |-> r, isString |-> TRUE, str |-> str, content |-> <<>>])]
    /\ output' = [output EXCEPT !.contents =
                     withStringTurn(@, targetRole(r), str, Len(req.messages) + 1)]
    /\ UNCHANGED <<applied, normalizing, calls, variant, modelName, sessionID, pc, loopVars, hasSystemInstruction,
                   schemaVars>>

\* the tools section: one container when a tool was declared
toolsSection(decls) == IF Len(decls) > 0 THEN <<decls>> ELSE <<>>

\* the loop over the tools ends with outcome d
Declared(d) ==
    /\ pc' = IF d.fault THEN "panic" ELSE "config"
    /\ output' = IF d.fault THEN output ELSE [output EXCEPT !.tools = toolsSection(d.decls)]
    /\ schemaCache' = d.cache

\* The messages are over: the tools are declared
ProcessTools(tools) ==
    /\ pc = "messages"
    /\ Len(tools) <= MaxItems - items
    /\ items' = items + Len(tools)
    /\ req' = [req EXCEPT !.tools = tools]
    /\ Declared(declareTools(tools, 1, variant, schemaCache, maxSize, <<>>))
    /\ UNCHANGED <<applied, normalizing, calls, variant, modelName, sessionID, loopVars, hasSystemInstruction>>
    /\ UNCHANGED <<maxSize, pool, jsonStr, result, fedBack, passes, stats, served>>

\* toolDeclCount
toolDeclCount == IF Len(output.tools) = 0 THEN 0 ELSE Len(output.tools[1])

\* the thinkingConfig of the entry point
thinkingConfigOf(th) ==
    IF variant = "V2" THEN thinkingConfigV2(enableThoughtTranslate, th)
    ELSE thinkingConfigOptimized(enableThoughtTranslate, th)

\* the constituents of the request read for the generation config
configItems(th, sampling) ==
    (IF th.present THEN 1 ELSE 0) + (IF sampling = {} THEN 0 ELSE 1)

\* The thinking hint and the generation config are built; the request is marshalled
BuildGenerationConfig(th, sampling) ==
    /\ pc = "config"
    /\ configItems(th, sampling) <= MaxItems - items
    /\ pc' = "done"
    /\ items' = items + configItems(th, sampling)
    /\ req' = [req EXCEPT !.thinking = th, !.sampling = sampling]
    /\ output' = [output EXCEPT
                      !.systemInstruction =
                          withHint(@, hasSystemInstruction, toolDeclCount, th, variant,
                                   modelName),
                      !.generationConfig = generationConfigOf(thinkingConfigOf(th), sampling)]
    /\ hasSystemInstruction' =
           (hasSystemInstruction
            \/ (variant = "Optimized" /\ toolDeclCount > 0 /\ hasThinkingOf(th, variant)
                /\ IsClaudeThinkingModel(modelName)))
    /\ UNCHANGED <<applied, normalizing, calls, variant, modelName, sessionID, loopVars, schemaVars>>

(***************************************************************************)
(* Calls running side by side                                              *)
(***************************************************************************)
\* the goroutines that call ConvertClaudeRequestToAntigravityV2
Calls == {"a", "b"}

\* no call runs side by side with another
NoCalls == [c \in {} |-> 0]

\* the per-message locals at their zero value, under role r and flag enable
NewLocals(r, enable) ==
    [role |-> r, enable |-> enable, signature |-> "", thinkingParts |-> <<>>,
     otherParts |-> <<>>, parts |-> <<>>]

\* a call after its payload parsed: enableThoughtTranslate := true, no contents
NewCall ==
    [pc |-> "messages", st |-> NewLocals("", TRUE), messages |-> <<>>,
     contents |-> <<>>, tools |-> <<>>, declared |-> <<>>]

\* a faulty reading: every call reads the locals of one call
localsOfOne(cs, c) == cs[CHOOSE d \in DOMAIN cs : TRUE].st

\* the local variables call c reads: enableThoughtTranslate,
\* currentMessageThinkingSignature, thinkingParts, otherParts, clientContent
localsOf(cs, c) == cs[c].st

\* A message of call c starts
CallBeginMessage(c, r) ==
    /\ calls[c].pc = "messages"
    /\ items < MaxItems
    /\ calls' = [calls EXCEPT
                     ![c].pc = "blocks",
                     ![c].messages = Append(@, [role |-> r, isString |-> FALSE,
                                                str |-> "", content |-> <<>>]),
                     ![c].st = NewLocals(targetRole(r), localsOf(calls, c).enable)]
    /\ UNCHANGED <<applied, normalizing, variant, modelName, sessionID, pc, items, req, loopVars,
                   hasSystemInstruction, output, schemaVars>>

\* The next content block of the message of call c is translated
CallProcessBlock(c, ci) ==
    /\ calls[c].pc = "blocks"
    /\ items < MaxItems
    /\ items' = items + 1
    /\ calls' = [calls EXCEPT
                     ![c].messages[Len(calls[c].messages)].content = Append(@, ci),
                     ![c].st = contentCaseV2(
                                   localsOf(calls, c), ci, ClaudeModel,
                                   Len(calls[c].messages[Len(calls[c].messages)].content)
                                       + 1)]
    /\ UNCHANGED <<applied, normalizing, variant, modelName, sessionID, pc, req, loopVars,
                   hasSystemInstruction, output, schemaVars>>

\* The message of call c ends
CallEndMessage(c) ==
    /\ calls[c].pc = "blocks"
    /\ Len(calls[c].messages[Len(calls[c].messages)].content) > 0
    /\ calls' = [calls EXCEPT
                     ![c].pc = "messages",
                     ![c].contents = withTurn(@, localsOf(calls, c).role,
                                              finalParts(localsOf(calls, c)),
                                              Len(calls[c].messages))]
    /\ UNCHANGED <<applied, normalizing, variant, modelName, sessionID, pc, items, req, loopVars,
                   hasSystemInstruction, output, schemaVars>>

\* call c after the loop over its tools ended with outcome d
CallDeclared(c, tools, d) ==
    /\ calls' = [calls EXCEPT ![c].pc = IF d.fault THEN "panic" ELSE "done",
                              ![c].tools = tools,
                              ![c].declared = IF d.fault THEN @ ELSE toolsSection(d.decls)]
    /\ schemaCache' = d.cache

\* The messages of call c are over: its tools are declared through the
\* schema cache all calls share
CallProcessTools(c, tools) ==
    /\ calls[c].pc = "messages"
    /\ Len(tools) <= MaxItems - items
    /\ items' = items + Len(tools)
    /\ CallDeclared(c, tools, declareTools(tools, 1, "V2", schemaCache, maxSize, <<>>))
    /\ UNCHANGED <<applied, normalizing, variant, modelName, sessionID, pc, req, loopVars,
                   hasSystemInstruction, output>>
    /\ UNCHANGED <<maxSize, pool, jsonStr, result, fedBack, passes, stats, served>>

(***************************************************************************)
(* Calls of the normalizer running side by side                            *)
(***************************************************************************)
\* a goroutine that is not in the normalizer
NotNormalizing == [pc |-> "idle", text |-> NoText, out |-> NoText]

\* goroutine c enters CleanJSONSchemaForAntigravityOptimized(t): the first
\* critical section, schemaCache.Get(hash) under the read lock
NormalizeLookup(c, t) ==
    /\ normalizing[c].pc = "idle"
    /\ normalizing' =
           [normalizing EXCEPT ![c] =
               IF CacheGet(schemaCache, computeHash(t)).ok
               THEN [pc |-> "returned", text |-> t,
                     out |-> CacheGet(schemaCache, computeHash(t)).val]
               ELSE [pc |-> "miss", text |-> t, out |-> NoText]]
    /\ UNCHANGED <<schemaVars, applied, calls, variant, modelName, sessionID, pc, items,
                   req, loopVars, hasSystemInstruction, output>>

\* goroutine c, after a miss, rewrites its own copy of the schema and
\* reaches the second critical section, schemaCache.Set(hash, result) under
\* the write lock; a text that does not parse and a fault store nothing
NormalizeStore(c) ==
    /\ normalizing[c].pc = "miss"
    /\ schemaCache' = storeOutcome(schemaCache, maxSize,
                                   computeHash(normalizing[c].text),
                                   cleanUncached(normalizing[c].text)).cache
    /\ normalizing' = [normalizing EXCEPT ![c].pc = "returned",
                                          ![c].out = cleanUncached(normalizing[c].text).out]
    /\ UNCHANGED <<maxSize, pool, jsonStr, result, fedBack, passes, stats, served>>
    /\ UNCHANGED <<applied, calls, variant, modelName, sessionID, pc, items,
                   req, loopVars, hasSystemInstruction, output>>

\* the caller of goroutine c has taken the result
NormalizeDone(c) ==
    /\ normalizing[c].pc = "returned"
    /\ normalizing' = [normalizing EXCEPT ![c] = NotNormalizing]
    /\ UNCHANGED <<schemaVars, applied, calls, variant, modelName, sessionID, pc, items,
                   req, loopVars, hasSystemInstruction, output>>

(***************************************************************************)
(* uTLS fingerprinting of HTTP clients (utls.go)                           *)
(***************************************************************************)
\* func GetClientHelloID(fingerprint TLSFingerprint) utls.ClientHelloID
GetClientHelloID(fingerprint) ==
    CASE fingerprint = "chrome_120" -> "HelloChrome_120"
      [] fingerprint = "chrome_131" -> "HelloChrome_131"
      [] fingerprint = "chrome_133" -> "HelloChrome_133"
      [] fingerprint \in {"chrome_latest", "default"} -> "HelloChrome_Auto"
      [] fingerprint = "firefox_102" -> "HelloFirefox_102"
      [] fingerprint = "firefox_105" -> "HelloFirefox_105"
      [] fingerprint = "firefox_120" -> "HelloFirefox_120"
      [] fingerprint = "firefox_latest" -> "HelloFirefox_Auto"
      [] fingerprint \in {"safari_16", "safari_latest"} -> "HelloSafari_16_0"
      [] fingerprint \in {"edge_85", "edge_latest"} -> "HelloEdge_85"
      [] fingerprint = "ios_11" -> "HelloIOS_11_1"
      [] fingerprint = "ios_12" -> "HelloIOS_12_1"
      [] fingerprint = "ios_13" -> "HelloIOS_13"
      [] fingerprint \in {"ios_14", "ios_latest"} -> "HelloIOS_14"
      [] fingerprint \in {"android_11", "android_latest"} -> "HelloAndroid_11_OkHttp"
      [] fingerprint = "" -> "HelloGolang"
      [] OTHER -> "HelloChrome_Auto"

\* a nil pointer or interface value
Nil == [kind |-> "nil"]

\* *http.Transport: ptr names the allocation, DialTLSContext is Nil or a
\* dial function, TLSClientConfig is Nil or a *tls.Config
Transport(ptr, dialTLS, tlsConfig) ==
    [kind |-> "http.Transport", ptr |-> ptr, DialTLSContext |-> dialTLS,
     TLSClientConfig |-> tlsConfig]

\* http.DefaultTransport.(*http.Transport)
DefaultTransport == Transport("default", Nil, Nil)

\* func (t *Transport) Clone() *Transport: a new allocation with the same
\* members
Clone(t) == [t EXCEPT !.ptr = "clone of " \o t.ptr]

\* *http.Client
Client(ptr, transport) == [kind |-> "http.Client", ptr |-> ptr, Transport |-> transport]

\* func newUTLSDialer(fingerprint, tlsConfig) *uTLSDialer
newUTLSDialer(fingerprint, tlsConfig) ==
    [kind |-> "uTLSDialer",
     config |-> IF tlsConfig = Nil THEN [kind |-> "tls.Config", ptr |-> "new"]
                ELSE tlsConfig,
     fingerprint |-> GetClientHelloID(fingerprint)]

\* a faulty transport that keeps the dial function of its base
cloneOfBase(fingerprint, baseTransport) ==
    IF baseTransport # Nil THEN Clone(baseTransport) ELSE Clone(DefaultTransport)

\* func CreateUTLSTransport(fingerprint, baseTransport) *http.Transport
CreateUTLSTransport(fingerprint, baseTransport) ==
    IF fingerprint = ""
    THEN IF baseTransport # Nil THEN baseTransport ELSE Clone(DefaultTransport)
    ELSE [(IF baseTransport # Nil THEN Clone(baseTransport) ELSE Clone(DefaultTransport))
             EXCEPT !.DialTLSContext =
                 newUTLSDialer(fingerprint,
                               IF baseTransport # Nil THEN baseTransport.TLSClientConfig
                               ELSE DefaultTransport.TLSClientConfig)]

\* baseTransport of ApplyUTLSToClient: the client's transport when it is a
\* *http.Transport
baseTransportOf(client) ==
    IF client.Transport.kind = "http.Transport" THEN client.Transport ELSE Nil

\* func ApplyUTLSToClient(client *http.Client, fingerprint TLSFingerprint) *http.Client
ApplyUTLSToClient(client, fingerprint) ==
    IF fingerprint = ""
    THEN IF client = Nil THEN Client("new", Nil) ELSE client
    ELSE IF client = Nil
    THEN Client("new", CreateUTLSTransport(fingerprint, Nil))
    ELSE [client EXCEPT !.Transport = CreateUTLSTransport(fingerprint,
                                                          baseTransportOf(client))]

\* no call of ApplyUTLSToClient yet
NotApplied == [client |-> Nil, fingerprint |-> "", returned |-> Nil, done |-> FALSE]

\* A caller applies a fingerprint to a client
ApplyUTLS(client, fingerprint) ==
    /\ applied' = [client |-> client, fingerprint |-> fingerprint,
                   returned |-> ApplyUTLSToClient(client, fingerprint), done |-> TRUE]
    /\ UNCHANGED <<normalizing, calls, variant, modelName, sessionID, pc, items, req,
                   loopVars, hasSystemInstruction, output, schemaVars>>

(***************************************************************************)
(* Specifications                                                          *)
(***************************************************************************)
\* no translation runs
TranslatorOff ==
    /\ variant = "none"
    /\ modelName = ""
    /\ sessionID = ""
    /\ pc = "off"
    /\ items = 0
    /\ req = NoRequest
    /\ role = ""
    /\ enableThoughtTranslate = TRUE
    /\ currentMessageThinkingSignature = ""
    /\ thinkingParts = <<>>
    /\ otherParts = <<>>
    /\ clientContent = <<>>
    /\ hasSystemInstruction = FALSE
    /\ output = NewOutput("")

\* the global cache, empty, and no normalizer call of its own
SchemaIdle ==
    /\ schemaCache = [x \in {} |-> NoText]
    /\ maxSize = DefaultMaxSize
    /\ pool = {}
    /\ jsonStr = NoText
    /\ result = NoText
    /\ fedBack = FALSE
    /\ passes = 0
    /\ stats = <<0, DefaultMaxSize>>
    /\ served = "none"

\* the normalizer is about to be called on one of the texts
InitPool(texts) ==
    /\ schemaCache = [x \in {} |-> NoText]
    /\ maxSize = DefaultMaxSize
    /\ pool \in { {t} : t \in texts }
    /\ jsonStr = NoText
    /\ result = NoText
    /\ fedBack = FALSE
    /\ passes = 0
    /\ stats = <<0, DefaultMaxSize>>
    /\ served = "none"
    /\ TranslatorOff
    /\ calls = NoCalls
    /\ normalizing = NoCalls
    /\ applied = NotApplied

InitUnions == InitPool(UnionTexts)
InitRefs == InitPool(RefTexts)
InitOdd == InitPool(OddTexts)

InitSchema ==
    /\ schemaCache = [x \in {} |-> NoText]
    /\ maxSize = DefaultMaxSize
    /\ pool \in { {t} : t \in SchemaTexts }
    /\ jsonStr = NoText
    /\ result = NoText
    /\ fedBack = FALSE
    /\ passes = 0
    /\ stats = <<0, DefaultMaxSize>>
    /\ served = "none"
    /\ TranslatorOff
    /\ calls = NoCalls
    /\ normalizing = NoCalls
    /\ applied = NotApplied

InitCache ==
    /\ schemaCache = [x \in {} |-> NoText]
    /\ maxSize = MaxSize
    /\ pool = CacheTexts
    /\ jsonStr = NoText
    /\ result = NoText
    /\ fedBack = FALSE
    /\ passes = 0
    /\ stats = <<0, MaxSize>>
    /\ served = "none"
    /\ TranslatorOff
    /\ calls = NoCalls
    /\ normalizing = NoCalls
    /\ applied = NotApplied

\* a call of the entry point v is about to start
InitTranslate(v) ==
    /\ variant = v
    /\ modelName = ""
    /\ sessionID = ""
    /\ pc = "start"
    /\ items = 0
    /\ req = NoRequest
    /\ role = ""
    /\ enableThoughtTranslate = TRUE
    /\ currentMessageThinkingSignature = ""
    /\ thinkingParts = <<>>
    /\ otherParts = <<>>
    /\ clientContent = <<>>
    /\ hasSystemInstruction = FALSE
    /\ output = NewOutput("")
    /\ calls = NoCalls
    /\ normalizing = NoCalls
    /\ applied = NotApplied
    /\ SchemaIdle

InitV2 == InitTranslate("V2")
InitOptimized == InitTranslate("Optimized")

NextSchema ==
    \/ \E t \in pool : Normalize(t)
    \/ NormalizeResult
    \/ ClearSchemaCache
    \/ GetSchemaCacheStats

\* calls on the texts of the pool, and the cache cleared between them
NextCalls ==
    \/ \E t \in pool : Normalize(t)
    \/ ClearSchemaCache

NextCache ==
    \/ \E t \in pool : Normalize(t)
    \/ ClearSchemaCache
    \/ GetSchemaCacheStats

NextV2 ==
    \/ \E m \in ModelNames, sys \in SystemChoices : StartRequest(m, sys, "")
    \/ FallbackToLegacy
    \/ \E r \in MessageRoles : BeginMessage(r)
    \/ \E ci \in ContentBlocks : ProcessBlock(ci)
    \/ EndMessage
    \/ \E r \in MessageRoles, str \in StringContents : StringMessage(r, str)
    \/ \E tools \in ToolLists : ProcessTools(tools)
    \/ \E th \in ThinkingChoices, sampling \in SamplingChoices :
           BuildGenerationConfig(th, sampling)

NextOptimized ==
    \/ \E m \in ModelNames, sys \in SystemChoices, uid \in UserIDs :
           StartRequest(m, sys, uid)
    \/ \E r \in MessageRoles : BeginMessage(r)
    \/ \E ci \in ContentBlocks : ProcessBlock(ci)
    \/ EndMessage
    \/ \E r \in MessageRoles, str \in StringContents : StringMessage(r, str)
    \/ \E tools \in ToolLists : ProcessTools(tools)
    \/ \E th \in ThinkingChoices, sampling \in SamplingChoices :
           BuildGenerationConfig(th, sampling)

\* tool_use_id values of tool_result blocks: without a dash, with one, two,
\* three and four dashes, with empty segments, and the empty id
ToolUseIDs ==
    {"", "toolu", "call-1", "call-abc-12", "call-abc-123-456", "a-b-c-d-e", "-"}

\* tool_result blocks over those ids, and one without a content
ToolResultBlocks ==
    { [Block("tool_result") EXCEPT !.tool_use_id = id, !.content = Str("ok")]
        : id \in ToolUseIDs }
    \cup { [Block("tool_result") EXCEPT !.tool_use_id = "toolu"] }

\* tool_use blocks over every kind of input: none, null, an array, a number,
\* a boolean, strings that hold no object, strings that hold one, and objects
ToolInputs ==
    { Absent, Null, Arr(<<Num("1")>>), Num("1"), Bool("true"),
      Str("hi"), Str("[1]"), Str("null"), Str("{oops"), Str("{\"q\":1}"),
      Obj([q |-> Num("1")]), Obj(EmptyMap) }

ToolUseBlocks ==
    { [Block("tool_use") EXCEPT !.id = "call-1", !.name = "search", !.input = x]
        : x \in ToolInputs }

\* a call of either entry point is about to start
InitEither == \E v \in {"V2", "Optimized"} : InitTranslate(v)

\* messages made of tool_result blocks, translated by either entry point
NextToolResults ==
    \/ \E m \in ModelNames : StartRequest(m, NoSystem, "")
    \/ \E r \in MessageRoles : BeginMessage(r)
    \/ \E ci \in ToolResultBlocks : ProcessBlock(ci)
    \/ EndMessage

\* messages made of tool_use blocks, translated by either entry point
NextToolUses ==
    \/ \E m \in ModelNames : StartRequest(m, NoSystem, "")
    \/ \E r \in MessageRoles : BeginMessage(r)
    \/ \E ci \in ToolUseBlocks : ProcessBlock(ci)
    \/ EndMessage

\* tools: without an input schema, with schemas the normalizer rewrites, and
\* with a schema on which the normalizer panics
SchemaTools ==
    { Tool("ping", NoText),
      Tool("search", Text("compact", Obj([type |-> Str("object")]))),
      Tool("lookup", Text("pretty",
                          Obj([type |-> Arr(<<Str("string"), Str("null")>>),
                               const |-> Str("x")]))),
      Tool("merge", Text("compact",
                         Obj([allOf |-> Arr(<<Obj([type |-> Str("object")])>>),
                              properties |-> Str("none")]))) }

SchemaToolLists == UNION {[1..n -> SchemaTools] : n \in 0..MaxItems}

\* one call of ConvertClaudeRequestToAntigravityV2 on a request without
\* messages
NextTools ==
    \/ \E m \in ModelNames, sys \in SystemChoices : StartRequest(m, sys, "")
    \/ FallbackToLegacy
    \/ \E tools \in SchemaToolLists : ProcessTools(tools)
    \/ \E th \in ThinkingChoices, sampling \in SamplingChoices :
           BuildGenerationConfig(th, sampling)

\* the content blocks that set and read the locals of a call: a thinking
\* block that is dropped, one that is kept, and a tool_use
SharedBlocks ==
    { [Block("thinking") EXCEPT !.thinking = "plan old",
                                !.signature = ClaudeModel \o "#sigA"],
      [Block("thinking") EXCEPT !.thinking = "plan B",
                                !.signature = ClaudeModel \o "#sigB"],
      [Block("tool_use") EXCEPT !.id = "call-1", !.name = "search",
                                !.input = Obj([q |-> Num("1")])] }

\* the calls have parsed their payloads
InitConcurrent ==
    /\ TranslatorOff
    /\ SchemaIdle
    /\ calls = [c \in Calls |-> NewCall]
    /\ normalizing = NoCalls
    /\ applied = NotApplied

\* goroutines about to call the normalizer on a cache of capacity MaxSize
InitRace ==
    /\ schemaCache = [x \in {} |-> NoText]
    /\ maxSize = MaxSize
    /\ pool = CacheTexts
    /\ jsonStr = NoText
    /\ result = NoText
    /\ fedBack = FALSE
    /\ passes = 0
    /\ stats = <<0, MaxSize>>
    /\ served = "none"
    /\ TranslatorOff
    /\ calls = NoCalls
    /\ normalizing = [c \in Calls |-> NotNormalizing]
    /\ applied = NotApplied

NextRace ==
    \/ \E c \in Calls, t \in pool : NormalizeLookup(c, t)
    \/ \E c \in Calls : NormalizeStore(c)
    \/ \E c \in Calls : NormalizeDone(c)
    \/ ClearSchemaCache
    \/ GetSchemaCacheStats

NextConcurrent ==
    \/ \E c \in Calls, r \in MessageRoles : CallBeginMessage(c, r)
    \/ \E c \in Calls, ci \in SharedBlocks : CallProcessBlock(c, ci)
    \/ \E c \in Calls : CallEndMessage(c)
    \/ \E c \in Calls, tools \in ToolLists : CallProcessTools(c, tools)

\* the TLSFingerprint constants, a name that is none of them, and none
Fingerprints ==
    { "chrome_120", "chrome_131", "chrome_133", "chrome_latest",
      "firefox_102", "firefox_105", "firefox_120", "firefox_latest",
      "safari_16", "safari_latest", "edge_85", "edge_latest",
      "ios_11", "ios_12", "ios_13", "ios_14", "ios_latest",
      "android_11", "android_latest", "", "default", "opera_1" }

\* clients: none, without a transport, with a *http.Transport with and
\* without a dial function and a TLS config of its own, and with a
\* RoundTripper of another type
Clients ==
    { Nil,
      Client("c1", Nil),
      Client("c2", Transport("t2", Nil, Nil)),
      Client("c3", Transport("t3", Nil, [kind |-> "tls.Config", ptr |-> "cfg3"])),
      Client("c4", Transport("t4", [kind |-> "func", ptr |-> "dial4"],
                             [kind |-> "tls.Config", ptr |-> "cfg4"])),
      Client("c5", [kind |-> "RoundTripper", ptr |-> "rt5"]) }

InitUTLS ==
    /\ SchemaIdle
    /\ TranslatorOff
    /\ calls = NoCalls
    /\ normalizing = NoCalls
    /\ applied = NotApplied

NextUTLS == \E client \in Clients, fingerprint \in Fingerprints : ApplyUTLS(client, fingerprint)

\* the normalizer, fed one schema text and its own output
Spec == InitSchema /\ [][NextSchema]_vars
\* a small cache instance under a pool of texts
SpecCache == InitCache /\ [][NextCache]_vars
\* one call of ConvertClaudeRequestToAntigravityV2
SpecV2 == InitV2 /\ [][NextV2]_vars
\* one call of ConvertClaudeRequestToAntigravityOptimized
SpecOptimized == InitOptimized /\ [][NextOptimized]_vars
\* one call of either entry point over messages of tool_result blocks
SpecToolResults == InitEither /\ [][NextToolResults]_vars
\* one call of either entry point over messages of tool_use blocks
SpecToolUses == InitEither /\ [][NextToolUses]_vars
\* one call of ConvertClaudeRequestToAntigravityV2 over lists of tools
SpecTools == InitV2 /\ [][NextTools]_vars
\* calls of ConvertClaudeRequestToAntigravityV2 running side by side
SpecConcurrent == InitConcurrent /\ [][NextConcurrent]_vars
\* calls of the normalizer, ClearSchemaCache and GetSchemaCacheStats running
\* side by side
SpecRace == InitRace /\ [][NextRace]_vars
\* calls of ApplyUTLSToClient
SpecUTLS == InitUTLS /\ [][NextUTLS]_vars
\* the normalizer, called on one schema with a $ref node
SpecRefs == InitRefs /\ [][NextCalls]_vars
\* the normalizer, called on one schema with a keyword of an unexpected kind
SpecOdd == InitOdd /\ [][NextCalls]_vars
\* the normalizer, called on one union
SpecUnions == InitUnions /\ [][NextCalls]_vars

(***************************************************************************)
(* Properties of the schema normalizer                                     *)
(***************************************************************************)
RECURSIVE SubValues(_)
\* a JSON value and every value nested in it
SubValues(x) ==
    {x} \cup (IF IsObj(x) THEN UNION {SubValues(x.o[key]) : key \in DOMAIN x.o}
              ELSE IF IsArr(x) THEN UNION {SubValues(x.a[i]) : i \in 1..Len(x.a)}
              ELSE {})

\* the last call was given a text that parses and returned
ReturnedForParseable == IsText(result) /\ ~UnmarshalString(jsonStr).err

\* the names of a required list
RequiredNames(n) ==
    IF HasArr(n, "required") THEN {n["required"].a[i] : i \in 1..Len(n["required"].a)}
    ELSE {}

\* every required name of the node is a key of the node's properties
RequiredWithinProperties(n) ==
    \A name \in RequiredNames(n) :
        IsStr(name) /\ HasObj(n, "properties") /\ name.s \in DOMAIN n["properties"].o

\* C1: in the output for a text that parses, every object node that has a
\* required list has only names in it that are keys of that node's properties
\* map.  The code breaks this (see C1_RequiredKept).
C1_RequiredWithinProperties ==
    ReturnedForParseable =>
        \A x \in SubValues(result.v) : IsObj(x) => RequiredWithinProperties(x.o)

\* the call returned a node that carries required and has no properties
C1_RequiredKept ==
    /\ ReturnedForParseable
    /\ \E x \in SubValues(result.v) :
           IsObj(x) /\ RequiredNames(x.o) # {} /\ ~Has(x.o, "properties")

\* the type of the schema is an array that holds "null"
IsNullableType(p) ==
    IsObj(p) /\ HasArr(p.o, "type")
    /\ \E i \in 1..Len(p.o["type"].a) : p.o["type"].a[i] = Str("null")

\* the node carries none of the keywords that replace or merge it
PlainNode(n) == \A key \in {"$ref", "allOf", "anyOf", "oneOf"} : ~Has(n, key)

\* the first member of the type array that is not "null", "string" if none
FirstNonNull(p) ==
    IF nonNullTypesOf(p.o["type"].a) = <<>> THEN "string"
    ELSE nonNullTypesOf(p.o["type"].a)[1]

\* in the output object out, property name (pin in the input) is normalized
\* as a nullable property: out of required, typed, and hinted
NullableDone(out, name, pin) ==
    /\ HasObj(out, "properties")
    /\ HasObj(out["properties"].o, name)
    /\ Str(name) \notin RequiredNames(out)
    /\ HasStr(out["properties"].o[name].o, "type")
    /\ out["properties"].o[name].o["type"].s = FirstNonNull(pin)
    /\ HasStr(out["properties"].o[name].o, "description")
    /\ Contains(out["properties"].o[name].o["description"].s, "(nullable)")

RECURSIVE NullableBelow(_, _)
\* every nullable property of the input object in, and of the objects nested
\* in its properties, is normalized as one in the output out
NullableBelow(in, out) ==
    (IsObj(in) /\ PlainNode(in.o) /\ HasObj(in.o, "properties")) =>
        /\ IsObj(out)
        /\ \A name \in DOMAIN in.o["properties"].o :
               /\ IsNullableType(in.o["properties"].o[name]) =>
                      NullableDone(out.o, name, in.o["properties"].o[name])
               /\ ( /\ ~IsNullableType(in.o["properties"].o[name])
                    /\ HasObj(out.o, "properties")
                    /\ Has(out.o["properties"].o, name) ) =>
                      NullableBelow(in.o["properties"].o[name],
                                    out.o["properties"].o[name])

\* C2: every property whose type is an array containing "null", of an object
\* node at any depth (root included), is after normalization out of its
\* owner's required list, typed with the first non-null member ("string" if
\* none) and described with "(nullable)".  The code breaks this (see
\* C2_RootNullableUntouched).
C2_NullableProperties ==
    (ReturnedForParseable /\ ~fedBack) => NullableBelow(jsonStr.v, result.v)

\* a nullable property of the root is returned still required, or unhinted
C2_RootNullableUntouched ==
    /\ ReturnedForParseable /\ ~fedBack
    /\ IsObj(jsonStr.v) /\ PlainNode(jsonStr.v.o) /\ HasObj(jsonStr.v.o, "properties")
    /\ \E name \in DOMAIN jsonStr.v.o["properties"].o :
           /\ IsNullableType(jsonStr.v.o["properties"].o[name])
           /\ IsObj(result.v)
           /\ ~NullableDone(result.v.o, name, jsonStr.v.o["properties"].o[name])

\* C3: normalization is idempotent: normalizing the text a call returned
\* returns that text again, whatever calls were made on the cache in between.
\* The code breaks this (see C3_SecondPassDiffers).
C3_Idempotent == (fedBack /\ IsText(result)) => result = jsonStr

\* a second pass over a returned text returned another text
C3_SecondPassDiffers == fedBack /\ IsText(result) /\ result # jsonStr

Turns ==
    output.contents
    \o (IF pc = "blocks"
        THEN <<ContentItem(role, thinkingParts \o otherParts \o clientContent,
                           Len(req.messages))>>
        ELSE <<>>)

\* the content blocks of the source message of turn t
SourceBlocks(t) == req.messages[t.msg].content

\* the token of a client signature "<model>#<token>" of the same model
ClientToken(sig, model) ==
    IF FirstIndex(sig, "#") # 0 /\ SubSeq(sig, 1, FirstIndex(sig, "#") - 1) = model
    THEN SubSeq(sig, FirstIndex(sig, "#") + 1, Len(sig))
    ELSE ""

\* the resolved signature of a thinking block: the cache lookup by (model,
\* thinking text) first, else the token of the client signature
ResolvedSignature(ci, model) ==
    IF GetCachedSignature(model, GetThinkingText(ci)) # ""
    THEN GetCachedSignature(model, GetThinkingText(ci))
    ELSE ClientToken(ci.signature, model)

\* the thinking block validates for the model
ValidThinking(ci, model) ==
    ci.type = "thinking" /\ HasValidSignature(model, ResolvedSignature(ci, model))

\* C5: in every turn of role "model" all thought parts precede all other
\* parts, thought parts keep the order of their source thinking blocks and
\* the other parts keep the order of their source blocks; in a turn of any
\* other role the parts are in source order.
C5_ThoughtsFirst ==
    \A k \in 1..Len(output.contents) :
        LET t == output.contents[k]
        IN  ~req.messages[t.msg].isString =>
                /\ \A i \in 1..Len(t.parts) :
                       /\ t.parts[i].src \in 1..Len(SourceBlocks(t))
                       /\ t.parts[i].thought
                              <=> SourceBlocks(t)[t.parts[i].src].type = "thinking"
                /\ \A i, j \in 1..Len(t.parts) :
                       i < j =>
                           IF t.role = "model"
                           THEN /\ t.parts[j].thought => t.parts[i].thought
                                /\ t.parts[i].thought = t.parts[j].thought
                                       => t.parts[i].src < t.parts[j].src
                           ELSE t.parts[i].src < t.parts[j].src

\* a model turn whose two thought parts, in source order, precede the part
\* of a block that came first in the message
C5_ThoughtsMovedAhead ==
    \E k \in 1..Len(output.contents) :
        LET t == output.contents[k]
        IN  /\ t.role = "model"
            /\ Len(t.parts) = 3
            /\ t.parts[1].thought /\ t.parts[2].thought /\ ~t.parts[3].thought
            /\ t.parts[3].src = 1 /\ t.parts[1].src = 2 /\ t.parts[2].src = 3

\* C6: every thought part carries a signature that validates for the request
\* model, the resolved signature of its thinking block; a thinking block
\* whose resolved signature does not validate has no part at all.
C6_ThoughtsValidated ==
    \A k \in 1..Len(Turns) :
        LET t == Turns[k]
        IN  /\ \A i \in 1..Len(t.parts) :
                   t.parts[i].thought =>
                       /\ HasValidSignature(modelName, t.parts[i].thoughtSignature)
                       /\ t.parts[i].thoughtSignature
                              = ResolvedSignature(SourceBlocks(t)[t.parts[i].src], modelName)
            /\ \A b \in 1..Len(SourceBlocks(t)) :
                   ( /\ SourceBlocks(t)[b].type = "thinking"
                     /\ ~ValidThinking(SourceBlocks(t)[b], modelName) ) =>
                       \A i \in 1..Len(t.parts) : t.parts[i].src # b

\* a turn with a thought part whose message also held a thinking block with
\* a cached token that does not validate and a client signature that does
C6_StaleTokenDropped ==
    \E k \in 1..Len(output.contents) :
        LET t == output.contents[k]
        IN  /\ \E i \in 1..Len(t.parts) : t.parts[i].thought
            /\ \E b \in 1..Len(SourceBlocks(t)) :
                   /\ SourceBlocks(t)[b].type = "thinking"
                   /\ GetCachedSignature(modelName, GetThinkingText(SourceBlocks(t)[b])) # ""
                   /\ ~ValidThinking(SourceBlocks(t)[b], modelName)
                   /\ clientSignature(SourceBlocks(t)[b].signature, modelName) # ""
                   /\ \A i \in 1..Len(t.parts) : t.parts[i].src # b

\* the block a ProcessBlock step has read
BlockRead == req'.messages[Len(req'.messages)].content[
                 Len(req'.messages[Len(req'.messages)].content)]

\* a step reads a thinking block that does not validate
ReadsFailingThinking ==
    /\ pc = "blocks" /\ items' = items + 1
    /\ BlockRead.type = "thinking"
    /\ ~ValidThinking(BlockRead, modelName)

\* what a step does to the thinking-translation flag, and the flag to the
\* generation config
FlagStep ==
    /\ (pc = "start" /\ pc' = "messages") => enableThoughtTranslate'
    /\ ReadsFailingThinking => ~enableThoughtTranslate'
    /\ (pc # "start" /\ ~enableThoughtTranslate) => ~enableThoughtTranslate'
    /\ (pc # "start" /\ enableThoughtTranslate /\ ~enableThoughtTranslate')
           => ReadsFailingThinking
    /\ ( /\ pc = "config" /\ pc' = "done" /\ ~enableThoughtTranslate
         /\ req'.thinking.present /\ req'.thinking.type = "enabled"
         /\ req'.thinking.hasBudget )
           => ~output'.generationConfig.thinkingConfig.present

\* C7: the thinking-translation flag starts enabled, is disabled by the
\* first thinking block whose signature fails validation and by nothing
\* else, is never re-enabled during the request, and when it is disabled a
\* directive "enabled" with a budget produces no thinkingConfig.
C7_FlagOnlyFalls == [][FlagStep]_vars

\* a finished request: the first message disabled the flag, the second one
\* had a thought part emitted, and the budget directive gave no thinkingConfig
C7_DisabledToTheEnd ==
    /\ pc = "done" /\ ~enableThoughtTranslate
    /\ req.thinking.type = "enabled" /\ req.thinking.hasBudget
    /\ ~output.generationConfig.thinkingConfig.present
    /\ Len(req.messages) = 2
    /\ \E b \in 1..Len(req.messages[1].content) :
           /\ req.messages[1].content[b].type = "thinking"
           /\ ~ValidThinking(req.messages[1].content[b], modelName)
    /\ \E k \in 1..Len(output.contents) :
           /\ output.contents[k].msg = 2
           /\ \E i \in 1..Len(output.contents[k].parts) : output.contents[k].parts[i].thought

\* C8: a directive of mode "adaptive" always yields a thinkingConfig with
\* level high and includeThoughts true, whatever the budget and whether or
\* not the thinking-translation flag was disabled.  The code breaks this
\* (see C8_AdaptiveSuppressed).
C8_AdaptiveAlwaysMapped ==
    (pc = "done" /\ req.thinking.present /\ req.thinking.type = "adaptive") =>
        /\ output.generationConfig.present
        /\ output.generationConfig.thinkingConfig.present
        /\ output.generationConfig.thinkingConfig.thinkingLevel = "high"
        /\ output.generationConfig.thinkingConfig.includeThoughts

\* a finished request with an adaptive directive, a disabled flag and no
\* thinkingConfig
C8_AdaptiveSuppressed ==
    /\ pc = "done" /\ req.thinking.present /\ req.thinking.type = "adaptive"
    /\ ~enableThoughtTranslate
    /\ ~output.generationConfig.thinkingConfig.present

\* C9: with a directive "enabled" and the flag enabled, a budget B gives
\* thinkingBudget = B and includeThoughts = (B # 0), and no budget gives no
\* thinkingConfig.  The code of the Optimized entry point breaks this (see
\* C9_ZeroBudgetIncludesThoughts).
C9_BudgetMapped ==
    ( /\ pc = "done" /\ enableThoughtTranslate
      /\ req.thinking.present /\ req.thinking.type = "enabled" ) =>
        IF req.thinking.hasBudget
        THEN /\ output.generationConfig.thinkingConfig.present
             /\ output.generationConfig.thinkingConfig.hasBudget
             /\ output.generationConfig.thinkingConfig.thinkingBudget = req.thinking.budget
             /\ output.generationConfig.thinkingConfig.includeThoughts
                    = (req.thinking.budget # 0)
        ELSE ~output.generationConfig.thinkingConfig.present

\* a finished request with budget 0 whose thinkingConfig includes thoughts
C9_ZeroBudgetIncludesThoughts ==
    /\ pc = "done" /\ enableThoughtTranslate
    /\ req.thinking.type = "enabled" /\ req.thinking.hasBudget
    /\ req.thinking.budget = 0
    /\ output.generationConfig.thinkingConfig.includeThoughts

\* the thinking blocks before position b that validate for the model
ValidBefore(content, b, model) ==
    {i \in 1..(b - 1) : ValidThinking(content[i], model)}

\* the signature of the last of them, the sentinel when there is none
CallSignature(content, b, model) ==
    IF ValidBefore(content, b, model) = {} THEN skipSentinel
    ELSE ResolvedSignature(
             content[CHOOSE i \in ValidBefore(content, b, model) :
                         \A j \in ValidBefore(content, b, model) : j <= i],
             model)

\* C10: every function-call part carries a non-empty signature: that of the
\* most recent earlier thinking block of the same message that validates for
\* the request model, else the sentinel.  The code breaks this (see
\* C10_SentinelDespiteValidThinking).
C10_CallSignature ==
    \A k \in 1..Len(Turns) :
        \A i \in 1..Len(Turns[k].parts) :
            Turns[k].parts[i].kind = "functionCall" =>
                /\ Turns[k].parts[i].thoughtSignature # ""
                /\ Turns[k].parts[i].thoughtSignature
                       = CallSignature(SourceBlocks(Turns[k]), Turns[k].parts[i].src,
                                       modelName)

\* a function-call part with the sentinel, after a thought part of the same
\* message was emitted with a signature that validates for the request model
C10_SentinelDespiteValidThinking ==
    \E k \in 1..Len(output.contents) :
        \E i, j \in 1..Len(output.contents[k].parts) :
            /\ output.contents[k].parts[i].kind = "functionCall"
            /\ output.contents[k].parts[i].thoughtSignature = skipSentinel
            /\ output.contents[k].parts[j].thought
            /\ output.contents[k].parts[j].src < output.contents[k].parts[i].src
            /\ HasValidSignature(modelName, output.contents[k].parts[j].thoughtSignature)

(***************************************************************************)
(* Properties of the tool_result translation                               *)
(***************************************************************************)
\* the positions of the dashes of an id
Dashes(id) == {i \in 1..Len(id) : SubSeq(id, i, i) = "-"}

\* the id without its last two dash-delimited segments: the text before the
\* last but one dash; nothing when the id has one dash; the id when it has none
WithoutLastTwo(id) ==
    IF Dashes(id) = {} THEN id
    ELSE IF Cardinality(Dashes(id)) = 1 THEN ""
    ELSE SubSeq(id, 1,
                (CHOOSE i \in Dashes(id) :
                     Cardinality({j \in Dashes(id) : j > i}) = 1) - 1)

\* the parts of turn t that translate the block at position b of its message
PartsOf(t, b) == {i \in 1..Len(t.parts) : t.parts[i].src = b}

\* C11: every tool_result block with a non-empty tool_use_id yields one
\* function-response part that keeps the full id as its id and is named by
\* the id without its last two dash-delimited segments, and by the id itself
\* when the id has no dash.
C11_FunctionName ==
    \A k \in 1..Len(Turns) :
        \A b \in 1..Len(SourceBlocks(Turns[k])) :
            (/\ SourceBlocks(Turns[k])[b].type = "tool_result"
             /\ SourceBlocks(Turns[k])[b].tool_use_id # "") =>
                /\ Cardinality(PartsOf(Turns[k], b)) = 1
                /\ \A i \in PartsOf(Turns[k], b) :
                       /\ Turns[k].parts[i].kind = "functionResponse"
                       /\ Turns[k].parts[i].id = SourceBlocks(Turns[k])[b].tool_use_id
                       /\ Turns[k].parts[i].name
                              = WithoutLastTwo(SourceBlocks(Turns[k])[b].tool_use_id)

\* a finished turn holds the responses named "call-abc" (from an id of three
\* dashes), "toolu" (from an id without a dash) and "" (from an id of one dash)
C11_NamesDerived ==
    \E k \in 1..Len(output.contents) :
        /\ \E i \in 1..Len(output.contents[k].parts) :
               /\ output.contents[k].parts[i].id = "call-abc-123-456"
               /\ output.contents[k].parts[i].name = "call-abc"
        /\ \E i \in 1..Len(output.contents[k].parts) :
               /\ output.contents[k].parts[i].id = "toolu"
               /\ output.contents[k].parts[i].name = "toolu"
        /\ \E i \in 1..Len(output.contents[k].parts) :
               /\ output.contents[k].parts[i].id = "call-1"
               /\ output.contents[k].parts[i].name = ""

(***************************************************************************)
(* Properties of the schema cache                                          *)
(***************************************************************************)
\* C12: after any sequence of normalizer calls (each storing through Set)
\* and ClearSchemaCache calls, the cache holds at most maxSize entries.
C12_CacheBounded == Cardinality(DOMAIN schemaCache) <= maxSize

\* a miss stored its entry and left the cache full, after the cache was
\* seen full by GetSchemaCacheStats
C12_StoredIntoFullCache ==
    /\ served = "miss"
    /\ computeHash(jsonStr) \in DOMAIN schemaCache
    /\ Cardinality(DOMAIN schemaCache) = maxSize
    /\ stats = <<maxSize, maxSize>>

\* the cache after a call on text t that found it below capacity is the cache
\* before it with one more entry, under the digest of t
OneEntryAdded(t) ==
    /\ computeHash(t) \notin DOMAIN schemaCache
    /\ DOMAIN schemaCache' = DOMAIN schemaCache \cup {computeHash(t)}
    /\ \A x \in DOMAIN schemaCache : schemaCache'[x] = schemaCache[x]

\* a call on a cached text returns the stored text and leaves the cache alone
ServedFromCache(t) ==
    /\ result' = schemaCache[computeHash(t)]
    /\ schemaCache' = schemaCache

\* a call on a parseable text t that finds the cache below capacity
CallBelowCapacity(t) ==
    /\ Normalize(t)
    /\ ~UnmarshalString(t).err
    /\ Cardinality(DOMAIN schemaCache) < maxSize

C14_FailsOpen ==
    /\ [](\A t \in pool : UnmarshalString(t).err => computeHash(t) \notin DOMAIN schemaCache)
    /\ [][\A t \in pool :
              (Normalize(t) /\ UnmarshalString(t).err) =>
                  (result' = t /\ schemaCache' = schemaCache)]_vars

\* a text that does not parse was returned unchanged by a miss that found
\* entries in the cache
C14_UnparsedReturned ==
    /\ UnmarshalString(jsonStr).err
    /\ jsonStr \in pool
    /\ result = jsonStr
    /\ served = "miss"
    /\ DOMAIN schemaCache # {}

(***************************************************************************)
(* Properties of the placeholders                                          *)
(***************************************************************************)
\* the node is what the $ref rule leaves: a type and a "See: " description
RefProduct(n) ==
    /\ DOMAIN n.o = {"type", "description"}
    /\ IsStr(n.o["description"])
    /\ Contains(n.o["description"].s, "See: ")

\* the object-typed nodes of a value that the $ref rule did not produce
ObjectNodes(x) ==
    {n \in SubValues(x) :
        IsObj(n) /\ HasStr(n.o, "type") /\ n.o["type"] = Str("object") /\ ~RefProduct(n)}

\* the node has a non-empty properties map
HasProperties(n) == HasObj(n.o, "properties") /\ DOMAIN n.o["properties"].o # {}

\* the node has a non-empty required list
HasRequired(n) == HasArr(n.o, "required") /\ Len(n.o["required"].a) > 0

\* C15: in the output every object-typed node that the $ref rule did not
\* produce has a non-empty properties map, and every such node other than
\* the root has a non-empty required list.  The code breaks this (see
\* C15_ObjectLeftBare).
C15_ObjectsFilled ==
    ReturnedForParseable =>
        \A n \in ObjectNodes(result.v) :
            /\ HasProperties(n)
            /\ (n # result.v => HasRequired(n))

\* the call returned an object-typed node below the root that has properties
\* and no required list
C15_ObjectLeftBare ==
    /\ ReturnedForParseable
    /\ \E n \in ObjectNodes(result.v) :
           n # result.v /\ HasProperties(n) /\ ~Has(n.o, "required")

(***************************************************************************)
(* Properties of the turns                                                 *)
(***************************************************************************)
\* the source message of an emitted turn
SourceMessage(t) == req.messages[t.msg]

\* the turns emitted for the source message m
TurnsOf(m) == {i \in 1..Len(output.contents) : output.contents[i].msg = m}

\* C16: every emitted turn has at least one part, each part of a turn of a
\* block message comes from a block of that message, a message whose string
\* content is empty has no turn, the turns are in the order of their source
\* messages, and the role of a turn is "model" for "assistant" and the source
\* role otherwise.  The second translator breaks this (see
\* C16_TurnForEmptyString).
C16_TurnsNonEmpty ==
    /\ \A i \in 1..Len(output.contents) :
           /\ Len(output.contents[i].parts) > 0
           /\ ~SourceMessage(output.contents[i]).isString =>
                  \A k \in 1..Len(output.contents[i].parts) :
                      output.contents[i].parts[k].src
                          \in 1..Len(SourceMessage(output.contents[i]).content)
           /\ output.contents[i].role =
                  (IF SourceMessage(output.contents[i]).role = "assistant" THEN "model"
                   ELSE SourceMessage(output.contents[i]).role)
    /\ \A i, j \in 1..Len(output.contents) :
           i < j => output.contents[i].msg < output.contents[j].msg
    /\ \A m \in 1..Len(req.messages) :
           req.messages[m].isString /\ req.messages[m].str = "" => TurnsOf(m) = {}

\* the second translator emitted a turn for a message whose string content
\* is empty
C16_TurnForEmptyString ==
    /\ variant = "Optimized"
    /\ \E m \in 1..Len(req.messages) :
           req.messages[m].isString /\ req.messages[m].str = "" /\ TurnsOf(m) # {}

(***************************************************************************)
(* Properties of the tools section                                         *)
(***************************************************************************)
\* the tools have been declared
ToolsDeclared == pc \in {"config", "done"}

\* the source tools that carry an input schema, in source order
WithSchema == SelectSeq(req.tools, LAMBDA tool : tool.input_schema # NoText)

\* C17: once the first translator has declared the tools, the output has a
\* tools section iff some source tool carries an input schema; the section is
\* one container that holds, in source order, one declaration per such tool,
\* with the tool's name and with the normalization of the tool's input schema
\* as parameter schema.
C17_ToolsSection ==
    ToolsDeclared =>
        /\ (Len(output.tools) > 0) <=> (Len(WithSchema) > 0)
        /\ Len(output.tools) <= 1
        /\ Len(output.tools) = 1 =>
               /\ Len(output.tools[1]) = Len(WithSchema)
               /\ \A i \in 1..Len(WithSchema) :
                      /\ output.tools[1][i].name = WithSchema[i].name
                      /\ output.tools[1][i].parametersJsonSchema
                             = cleanUncached(WithSchema[i].input_schema).out

\* the tools of a request that has a tool without input schema ahead of two
\* tools with one have been declared
C17_SchemalessSkipped ==
    /\ ToolsDeclared
    /\ Len(req.tools) = 3
    /\ req.tools[1].input_schema = NoText
    /\ Len(output.tools) = 1
    /\ Len(output.tools[1]) = 2
    /\ output.tools[1][1].name # output.tools[1][2].name

(***************************************************************************)
(* Properties of the interleaved thinking hint                             *)
(***************************************************************************)
\* the three conditions of the hint, on the finished request
HintDue ==
    /\ toolDeclCount > 0
    /\ req.thinking.present
    /\ req.thinking.type \in {"enabled", "adaptive"}
    /\ IsClaudeThinkingModel(modelName)

\* the system instruction made of the system prompt alone
TranslatedSystem == systemInstructionOf(req.system).item

\* C18: in the finished output the interleaved-thinking sentence is the last
\* part of the system instruction, after the parts of the translated system
\* prompt and under role "user" when there is no such prompt, iff a function
\* declaration was emitted, the thinking mode is "enabled" or "adaptive" and
\* the model is a thinking Claude model; otherwise the system instruction is
\* the translated system prompt.  The second translator breaks this (see
\* C18_AdaptiveWithoutHint).
C18_HintWhenDue ==
    pc = "done" =>
        IF HintDue
        THEN /\ output.systemInstruction.present
             /\ output.systemInstruction.role = "user"
             /\ output.systemInstruction.parts
                    = TranslatedSystem.parts \o <<TextPart(interleavedHint, 0)>>
        ELSE output.systemInstruction = TranslatedSystem

\* the second translator finished a request with a declared tool and thinking
\* mode "adaptive" for a thinking Claude model, and the system instruction is
\* the translated system prompt
C18_AdaptiveWithoutHint ==
    /\ pc = "done"
    /\ variant = "Optimized"
    /\ HintDue
    /\ req.thinking.type = "adaptive"
    /\ output.systemInstruction = TranslatedSystem

(***************************************************************************)
(* Properties of the fallback                                              *)
(***************************************************************************)
\* C19: a call of the first translator never fails: it goes on until it
\* returns the legacy translation, which it does when the payload does not
\* parse and before anything of its own output is built, or its own output.
\* The code breaks this (see C19_PanicInTools).
C19_NeverFails ==
    /\ pc # "panic"
    /\ pc = "legacy" => output = NewOutput("") /\ req = NoRequest
    /\ pc = "done" => output.model = modelName

\* the call ended in a panic of the normalizer, on the input schema of a tool
\* of a payload that parsed
C19_PanicInTools ==
    /\ pc = "panic"
    /\ variant = "V2"
    /\ \E i \in 1..Len(req.tools) :
           /\ req.tools[i].input_schema # NoText
           /\ cleanUncached(req.tools[i].input_schema).out = Panicked

(***************************************************************************)
(* Properties of calls running side by side                                *)
(***************************************************************************)
RECURSIVE TranslateBlocks(_, _, _)
\* the locals after the blocks k.. of a message, translated with no other
\* call running
TranslateBlocks(st, blocks, k) ==
    IF k > Len(blocks) THEN st
    ELSE TranslateBlocks(contentCaseV2(st, blocks[k], ClaudeModel, k), blocks, k + 1)

RECURSIVE FlagBefore(_, _)
\* the thinking-translation flag before message i of a request translated alone
FlagBefore(msgs, i) ==
    IF i = 1 THEN TRUE
    ELSE TranslateBlocks(NewLocals(targetRole(msgs[i - 1].role), FlagBefore(msgs, i - 1)),
                         msgs[i - 1].content, 1).enable

\* the locals after the blocks read so far of message i, translated alone
AloneLocals(msgs, i) ==
    TranslateBlocks(NewLocals(targetRole(msgs[i].role), FlagBefore(msgs, i)),
                    msgs[i].content, 1)

RECURSIVE AloneContents(_, _)
\* the turns of the first n messages, translated alone
AloneContents(msgs, n) ==
    IF n = 0 THEN <<>>
    ELSE withTurn(AloneContents(msgs, n - 1), targetRole(msgs[n].role),
                  finalParts(AloneLocals(msgs, n)), n)

\* the messages of call c that have ended
Ended(c) ==
    IF calls[c].pc = "blocks" THEN Len(calls[c].messages) - 1 ELSE Len(calls[c].messages)

\* C20: under every interleaving of the calls, the locals, the turns and the
\* tools section of each call are those of the same request translated with
\* no other call running and an empty schema cache: neither the
\* thinking-translation flag nor the current-message signature of another
\* call, nor the entries other calls left in the schema cache, change them.
C20_CallsIsolated ==
    \A c \in DOMAIN calls :
        /\ calls[c].contents = AloneContents(calls[c].messages, Ended(c))
        /\ calls[c].pc = "blocks" =>
               calls[c].st = AloneLocals(calls[c].messages, Len(calls[c].messages))
        /\ calls[c].pc = "done" =>
               calls[c].declared
                   = toolsSection(declareTools(calls[c].tools, 1, "V2",
                                               [x \in {} |-> NoText], maxSize, <<>>).decls)

\* two calls are inside a message at once, one with the flag cleared and no
\* signature, the other with the flag set and a signature
C20_LocalsDiffer ==
    \E c, d \in DOMAIN calls :
        /\ calls[c].pc = "blocks" /\ calls[d].pc = "blocks"
        /\ ~calls[c].st.enable /\ calls[c].st.signature = ""
        /\ calls[d].st.enable /\ calls[d].st.signature # ""

(***************************************************************************)
(* Properties of the union flattening                                      *)
(***************************************************************************)
\* the last call was given a schema object with a non-empty union under key
\* and returned
FlattenedUnion(key) ==
    /\ ReturnedForParseable
    /\ IsObj(jsonStr.v)
    /\ HasArr(jsonStr.v.o, key)
    /\ Len(jsonStr.v.o[key].a) > 0
    /\ IsObj(result.v)

\* rank of a union member: object 3, array 2, other non-null type 1,
\* null or untyped 0; a member that is no schema object has none
Rank(m) ==
    IF ~IsObj(m) THEN 0 - 1
    ELSE IF (HasStr(m.o, "type") /\ m.o["type"].s = "object") \/ Has(m.o, "properties")
    THEN 3
    ELSE IF (HasStr(m.o, "type") /\ m.o["type"].s = "array") \/ Has(m.o, "items")
    THEN 2
    ELSE IF HasStr(m.o, "type") /\ m.o["type"].s \notin {"", "null"} THEN 1
    ELSE 0

\* the first member of the highest rank present
FirstOfHighestRank(arr) ==
    CHOOSE i \in 1..Len(arr) :
        /\ \A j \in 1..Len(arr) : Rank(arr[j]) <= Rank(arr[i])
        /\ \A j \in 1..(i - 1) : Rank(arr[j]) < Rank(arr[i])

\* the type a member stands for in the hint
MemberType(m) ==
    IF HasStr(m.o, "type") /\ m.o["type"].s # "" THEN m.o["type"].s
    ELSE IF Rank(m) = 3 THEN "object"
    ELSE IF Rank(m) = 2 THEN "array"
    ELSE "null"

RECURSIVE DistinctTypes(_, _)
\* the distinct types of the members from i on that are not in seen, in
\* first-seen order
DistinctTypes(arr, seen) ==
    IF Len(arr) = 0 THEN seen
    ELSE IF ~IsObj(arr[1]) \/ stringSliceContains(seen, MemberType(arr[1]))
    THEN DistinctTypes(Tail(arr), seen)
    ELSE DistinctTypes(Tail(arr), Append(seen, MemberType(arr[1])))

\* the description of a node, "" when it has none
DescriptionOf(n) == IF HasStr(n, "description") THEN n["description"].s ELSE ""

\* the flattening of the union under key chose the member best of arr
MergedInto(out, in, key, arr, best) ==
    /\ ~Has(out, key)
    /\ Rank(best) >= 0 =>
           /\ \A k \in (DOMAIN best.o) \ {"description", "anyOf", "oneOf"} : Has(out, k)
           /\ HasStr(best.o, "type") => out["type"] = best.o["type"]
           /\ ~Has(best.o, "type") => ~Has(out, "type")
           /\ Has(best.o, "properties") =>
                  DOMAIN out["properties"].o = DOMAIN best.o["properties"].o
           /\ DescriptionOf(best.o) # "" =>
                  Contains(DescriptionOf(out), DescriptionOf(best.o))
    /\ IF Len(DistinctTypes(arr, <<>>)) > 1
       THEN Contains(DescriptionOf(out),
                     "Accepts: " \o Join(DistinctTypes(arr, <<>>), " | "))
       ELSE ~Contains(DescriptionOf(out), "Accepts: ")

\* C21: when a node with a non-empty anyOf or oneOf is normalized, the union
\* keyword is gone, the keys of the first member of the highest rank present
\* are in the node with that member's type, and the description holds
\* "Accepts: t1 | t2 ..." over the distinct member types in first-seen order
\* iff there are at least two of them.
C21_BestMemberMerged ==
    \A key \in {"anyOf", "oneOf"} :
        FlattenedUnion(key) =>
            MergedInto(result.v.o, jsonStr.v.o, key, jsonStr.v.o[key].a,
                       jsonStr.v.o[key].a[FirstOfHighestRank(jsonStr.v.o[key].a)])

\* a union whose first member is of a lower rank than a later one was
\* flattened, and the description lists more than one type
C21_LaterMemberChosen ==
    /\ FlattenedUnion("anyOf")
    /\ FirstOfHighestRank(jsonStr.v.o["anyOf"].a) > 1
    /\ Rank(jsonStr.v.o["anyOf"].a[1]) >= 0
    /\ Contains(DescriptionOf(result.v.o), "Accepts: ")

(***************************************************************************)
(* Properties of ApplyUTLSToClient                                         *)
(***************************************************************************)
\* C22: the client ApplyUTLSToClient returns is never nil and is the client
\* given when there is one; for a non-empty fingerprint its Transport is a
\* *http.Transport whose DialTLSContext is a uTLS dialer; for the empty
\* fingerprint the client given is returned with the Transport it had.
C22_ClientReturned ==
    applied.done =>
        /\ applied.returned # Nil
        /\ applied.returned.kind = "http.Client"
        /\ applied.client # Nil => applied.returned.ptr = applied.client.ptr
        /\ applied.client = Nil => applied.returned.ptr = "new"
        /\ applied.fingerprint # "" =>
               /\ applied.returned.Transport.kind = "http.Transport"
               /\ applied.returned.Transport.DialTLSContext.kind = "uTLSDialer"
        /\ applied.fingerprint = "" /\ applied.client # Nil =>
               applied.returned = applied.client
        /\ applied.fingerprint = "" /\ applied.client = Nil =>
               applied.returned.Transport = Nil

\* a fingerprint was applied to a client whose transport had a dial function
\* of its own
C22_DialerReplaced ==
    /\ applied.done
    /\ applied.fingerprint = "firefox_latest"
    /\ applied.client # Nil
    /\ applied.client.Transport.kind = "http.Transport"
    /\ applied.client.Transport.DialTLSContext # Nil
    /\ applied.returned.Transport.DialTLSContext.fingerprint = "HelloFirefox_Auto"

(***************************************************************************)
(* Properties of the eviction                                              *)
(***************************************************************************)
\* the place of a key in the lexicographic order of the digests
DigestRank(key) == CHOOSE i \in 1..Len(RankedTexts) : computeHash(RankedTexts[i]) = key

\* the keys a step removes from the cache
Evicted == (DOMAIN schemaCache) \ (DOMAIN schemaCache')

\* a call on text t misses and reaches schemaCache.Set
CallStores(t) ==
    /\ Normalize(t)
    /\ computeHash(t) \notin DOMAIN schemaCache
    /\ ~UnmarshalString(t).err
    /\ result' # Panicked

\* what Set does to the cache: below capacity nothing leaves; at capacity
\* the floor(n/2) smallest keys leave; the other entries keep their values
\* and the new entry is stored
SetFrame(key) ==
    /\ IF Cardinality(DOMAIN schemaCache) < maxSize
       THEN Evicted = {}
       ELSE /\ Cardinality(Evicted) = Cardinality(DOMAIN schemaCache) \div 2
            /\ \A e \in Evicted, k \in (DOMAIN schemaCache) \ Evicted :
                   DigestRank(e) < DigestRank(k)
    /\ \A k \in (DOMAIN schemaCache) \ Evicted : schemaCache'[k] = schemaCache[k]
    /\ DOMAIN schemaCache' = ((DOMAIN schemaCache) \ Evicted) \cup {key}
    /\ schemaCache'[key] = result'

\* C23: Set removes entries only from a cache that holds at least maxSize
\* entries: then exactly the floor(n/2) entries with the smallest keys; every
\* other entry keeps its value, and the new entry is stored.
C23_EvictsSmallestHalf ==
    [][\A t \in pool : CallStores(t) => SetFrame(computeHash(t))]_vars

\* a miss stored its entry after the entry with the smallest key had left a
\* cache seen full by GetSchemaCacheStats
C23_SmallestEvicted ==
    /\ served = "miss"
    /\ stats = <<maxSize, maxSize>>
    /\ computeHash(jsonStr) \in DOMAIN schemaCache
    /\ DigestRank(computeHash(jsonStr)) > 2
    /\ computeHash(RankedTexts[1]) \notin DOMAIN schemaCache
    /\ computeHash(RankedTexts[2]) \in DOMAIN schemaCache
    /\ Cardinality(DOMAIN schemaCache) = maxSize - (maxSize \div 2) + 1

(***************************************************************************)
(* Properties of the restricted dialect                                    *)
(***************************************************************************)
\* the keywords no node of the output may carry
RemovedKeywords ==
    {"const", "additionalProperties", "allOf", "anyOf", "oneOf", "$ref", "$schema",
     "$defs", "definitions", "$id", "propertyNames", "patternProperties",
     "enumTitles", "prefill"}

\* the keywords no node of the output may carry with a scalar value
ScalarKeywords ==
    {"minLength", "maxLength", "exclusiveMinimum", "exclusiveMaximum", "pattern",
     "minItems", "maxItems", "format", "default", "examples"}

\* the node is in the restricted dialect
InDialect(n) ==
    /\ (DOMAIN n) \cap RemovedKeywords = {}
    /\ \A key \in (DOMAIN n) \cap ScalarKeywords : IsObj(n[key]) \/ IsArr(n[key])

\* C24: every node of the output is in the restricted dialect.  The code
\* breaks this (see C24_EmptyUnionKept).
C24_RestrictedDialect ==
    ReturnedForParseable =>
        \A n \in SubValues(result.v) : IsObj(n) => InDialect(n.o)

\* the call returned a node that carries an empty union
C24_EmptyUnionKept ==
    /\ ReturnedForParseable
    /\ IsObj(result.v)
    /\ HasArr(result.v.o, "anyOf")
    /\ Len(result.v.o["anyOf"].a) = 0

(***************************************************************************)
(* Properties of the $ref rule                                             *)
(***************************************************************************)
\* the name a reference ends with: what follows its last "/"
RefName(ref) ==
    IF \E i \in 1..Len(ref) : SubSeq(ref, i, i) = "/"
    THEN SubSeq(ref, 1 + (CHOOSE i \in 1..Len(ref) :
                              /\ SubSeq(ref, i, i) = "/"
                              /\ \A j \in (i + 1)..Len(ref) : SubSeq(ref, j, j) # "/"),
                Len(ref))
    ELSE ref

\* what a node with a string $ref is to become
RefHint(n) ==
    Obj([type |-> Str("object"),
         description |->
             Str(IF DescriptionOf(n) # ""
                 THEN DescriptionOf(n) \o " (See: " \o RefName(n["$ref"].s) \o ")"
                 ELSE "See: " \o RefName(n["$ref"].s))])

\* the nodes of the input that carry a string $ref
RefNodesOf(x) == {n \in SubValues(x) : IsObj(n) /\ HasStr(n.o, "$ref")}

\* C25: every node of the input with a string $ref is in the output as
\* exactly {type: "object", description: D}, D being "See: <name>" or
\* "<description> (See: <name>)", with none of its other keys and nothing
\* added.  The code breaks this (see C25_ReferenceLost).
C25_RefTerminal ==
    ReturnedForParseable =>
        \A n \in RefNodesOf(jsonStr.v) : RefHint(n.o) \in SubValues(result.v)

\* the call was given a union whose first member is a $ref node and returned
\* a schema with no description
C25_ReferenceLost ==
    /\ ReturnedForParseable
    /\ IsObj(jsonStr.v)
    /\ HasArr(jsonStr.v.o, "anyOf")
    /\ RefNodesOf(jsonStr.v.o["anyOf"].a[1]) # {}
    /\ IsObj(result.v)
    /\ ~Has(result.v.o, "description")

(***************************************************************************)
(* Properties of the tool_use translation                                  *)
(***************************************************************************)
\* the texts that parse as a JSON object
ObjectTexts == {"{\"q\":1}"}

\* the input is a JSON object, or a JSON string whose content parses as one
HoldsObject(input) == IsObj(input) \/ (IsStr(input) /\ input.s \in ObjectTexts)

\* C26: a tool_use block yields one function-call part when its input is a
\* JSON object or a JSON string whose content parses as a JSON object, and
\* no part for any other input; the args of every function-call part are a
\* JSON object.  The code breaks this (see C26_NullArguments).
C26_ToolUseInput ==
    \A k \in 1..Len(Turns) :
        \A b \in 1..Len(SourceBlocks(Turns[k])) :
            SourceBlocks(Turns[k])[b].type = "tool_use" =>
                IF HoldsObject(SourceBlocks(Turns[k])[b].input)
                THEN /\ Cardinality(PartsOf(Turns[k], b)) = 1
                     /\ \A i \in PartsOf(Turns[k], b) :
                            /\ Turns[k].parts[i].kind = "functionCall"
                            /\ IsObj(Turns[k].parts[i].args)
                ELSE PartsOf(Turns[k], b) = {}

\* a turn holds a function-call part whose args are null
C26_NullArguments ==
    \E k \in 1..Len(Turns) :
        \E i \in 1..Len(Turns[k].parts) :
            /\ Turns[k].parts[i].kind = "functionCall"
            /\ Turns[k].parts[i].args = Null

(***************************************************************************)
(* Properties of the required lists                                        *)
(***************************************************************************)
\* the required list of a node, as it stands
RequiredSeq(n) == IF HasArr(n, "required") THEN n["required"].a ELSE <<>>

\* the members of list that occur in other, in the order of list
Among(list, other) ==
    SelectSeq(list, LAMBDA x : \E i \in 1..Len(other) : other[i] = x)

\* name may leave the required list of the input object in: it is no key of
\* the object's properties, or that property is typed with an array that
\* holds "null"
MayLeave(in, name) ==
    \/ ~HasObj(in, "properties")
    \/ ~Has(in["properties"].o, name)
    \/ IsNullableType(in["properties"].o[name])

RECURSIVE RequiredFrame(_, _)
\* the frame of the required list of the input object in, whose output is
\* out, and of the objects nested in its properties
RequiredFrame(in, out) ==
    (IsObj(in) /\ IsObj(out) /\ PlainNode(in.o)) =>
        /\ \A i \in 1..Len(RequiredSeq(in.o)) :
               ( /\ IsStr(RequiredSeq(in.o)[i])
                 /\ RequiredSeq(in.o)[i] \notin RequiredNames(out.o) ) =>
                    MayLeave(in.o, RequiredSeq(in.o)[i].s)
        /\ Among(RequiredSeq(out.o), RequiredSeq(in.o))
               = Among(RequiredSeq(in.o), RequiredSeq(out.o))
        /\ (HasObj(in.o, "properties") /\ HasObj(out.o, "properties")) =>
               \A name \in DOMAIN in.o["properties"].o :
                   Has(out.o["properties"].o, name) =>
                       RequiredFrame(in.o["properties"].o[name],
                                     out.o["properties"].o[name])

\* C27: normalization removes a name N from the required list of an object O
\* only if N is no key of O's properties or the property N of O itself was
\* typed with an array holding "null"; a nullable property nested deeper
\* removes no name from an ancestor's list; the names that remain keep their
\* relative order.  The code breaks this (see C27_AncestorLosesName).
C27_RequiredFrame == ReturnedForParseable => RequiredFrame(jsonStr.v, result.v)

\* the root required a property that is an object with a nullable property
\* of its own, and was returned without that name in its required list
C27_AncestorLosesName ==
    /\ ReturnedForParseable
    /\ IsObj(jsonStr.v) /\ PlainNode(jsonStr.v.o) /\ IsObj(result.v)
    /\ HasObj(jsonStr.v.o, "properties")
    /\ \E name \in DOMAIN jsonStr.v.o["properties"].o :
           /\ Str(name) \in RequiredNames(jsonStr.v.o)
           /\ Str(name) \notin RequiredNames(result.v.o)
           /\ ~IsNullableType(jsonStr.v.o["properties"].o[name])
           /\ IsObj(jsonStr.v.o["properties"].o[name])
           /\ HasObj(jsonStr.v.o["properties"].o[name].o, "properties")
           /\ \E inner \in DOMAIN jsonStr.v.o["properties"].o[name].o["properties"].o :
                  IsNullableType(jsonStr.v.o["properties"].o[name].o["properties"].o[inner])

(***************************************************************************)
(* Properties of the normalizer under concurrency                          *)
(***************************************************************************)
\* the texts whose normalization is stored
Storable == {t \in pool : cleanUncached(t).store}

C29_Total ==
    (jsonStr # NoText /\ ~UnmarshalString(jsonStr).err) => IsText(result)

\* the call was given a node with allOf whose properties is no object and
\* ended in a runtime fault
C29_FaultInMerge ==
    /\ result = Panicked
    /\ ~UnmarshalString(jsonStr).err
    /\ \E n \in SubValues(jsonStr.v) :
           IsObj(n) /\ HasArr(n.o, "allOf") /\ Has(n.o, "properties")
           /\ ~IsObj(n.o["properties"])

(***************************************************************************)
(* Equivalence of the two entry points                                     *)
(***************************************************************************)
RECURSIVE BlocksV2(_, _, _, _)
\* the locals of ConvertClaudeRequestToAntigravityV2 after the blocks k.. of
\* a message
BlocksV2(st, blocks, k, model) ==
    IF k > Len(blocks) THEN st
    ELSE BlocksV2(contentCaseV2(st, blocks[k], model, k), blocks, k + 1, model)

RECURSIVE FlagV2(_, _, _)
\* its thinking-translation flag before message i
FlagV2(msgs, i, model) ==
    IF i = 1 THEN TRUE
    ELSE BlocksV2(NewLocals(targetRole(msgs[i - 1].role), FlagV2(msgs, i - 1, model)),
                  msgs[i - 1].content, 1, model).enable

RECURSIVE ContentsV2(_, _, _)
\* its turns for the first n messages
ContentsV2(msgs, n, model) ==
    IF n = 0 THEN <<>>
    ELSE IF msgs[n].isString
    THEN (IF msgs[n].str = "" THEN ContentsV2(msgs, n - 1, model)
          ELSE Append(ContentsV2(msgs, n - 1, model),
                      ContentItem(targetRole(msgs[n].role),
                                  <<TextPart(msgs[n].str, 0)>>, n)))
    ELSE withTurn(ContentsV2(msgs, n - 1, model), targetRole(msgs[n].role),
                  finalParts(BlocksV2(NewLocals(targetRole(msgs[n].role),
                                                FlagV2(msgs, n, model)),
                                      msgs[n].content, 1, model)), n)

\* its tool declarations
DeclsV2(tools) == declareTools(tools, 1, "V2", [x \in {} |-> NoText], maxSize, <<>>).decls

\* its target request for the source request r and the model
RequestV2(r, model) ==
    [model |-> model,
     systemInstruction |->
         withHint(systemInstructionV2(r.system).item, systemInstructionV2(r.system).has,
                  Len(DeclsV2(r.tools)), r.thinking, "V2", model),
     contents |-> ContentsV2(r.messages, Len(r.messages), model),
     tools |-> toolsSection(DeclsV2(r.tools)),
     generationConfig |->
         generationConfigOf(thinkingConfigV2(FlagV2(r.messages, Len(r.messages) + 1, model),
                                             r.thinking),
                            r.sampling)]

\* C30: for every request that parses, ConvertClaudeRequestToAntigravityOptimized
\* builds the target request ConvertClaudeRequestToAntigravityV2 builds: the
\* same system instruction, turns and parts, tool declarations and generation
\* config (neither writes to the signature cache).  The code breaks this
\* (see C30_AdaptiveDropped).
C30_SameRequest ==
    (variant = "Optimized" /\ pc = "done") => output = RequestV2(req, modelName)

\* the optimized entry point finished a request with adaptive thinking
\* without a thinkingConfig, where V2 sets thinkingLevel "high"
C30_AdaptiveDropped ==
    /\ variant = "Optimized" /\ pc = "done"
    /\ req.thinking.present /\ req.thinking.type = "adaptive"
    /\ ~output.generationConfig.thinkingConfig.present
    /\ RequestV2(req, modelName).generationConfig.thinkingConfig.thinkingLevel = "high"
====
